---- MODULE Spec2Model ----
(***************************************************************************)
(* Verification model of gmail_ingestor: the SQLite state tracker          *)
(* (storage/tracker.py), the Gmail API adapter with its retry policy       *)
(* (core/gmail_client.py) and the three-stage pipeline orchestrator        *)
(* (pipeline/ingestor.py).                                                 *)
(*                                                                         *)
(* The specifications share the variables:                                 *)
(*   SpecTracker   calls of the FetchTracker methods in any order          *)
(*   SpecInsert    insert_pending and its return value on one connection   *)
(*   SpecWindows   the LIMIT/OFFSET windows of get_pending_ids             *)
(*   SpecClient    calls of the GmailClient methods, one API attempt a step*)
(*   SpecBackoff   the sleeps of _execute_with_retry                       *)
(*   SpecPages     the generator discover_message_ids, one resumption a    *)
(*                 step                                                    *)
(*   Spec          the EmailIngestor operations, one message a step        *)
(*   SpecDiscovery run_discovery over larger mailboxes                     *)
(*   SpecCrash     a process of the pipeline that may die at any point     *)
(*   SpecMissing   the stages with raw files removed between them          *)
(*   SpecStages    the fetch and convert stages under fair scheduling      *)
(*   SpecCli       main() of scripts/cli.py                                *)
(*   SpecConverter MarkdownConverter.convert                               *)
(*   SpecWriter    MarkdownWriter.write                                    *)
(***************************************************************************)
EXTENDS Integers, Sequences, FiniteSets, TLC

(***************************************************************************)
(* Bounds of the model.                                                    *)
(***************************************************************************)
NumMsgs == 2          \* SpecTracker: message IDs are 1..NumMsgs
MaxMailbox == 2       \* Spec: the mailbox lists at most this many messages
DiscMailbox == 2      \* SpecDiscovery: the same, and its limit and offset range
MaxClock == 4         \* SpecTracker: tracker writes a behaviour may perform
MaxRetries == 2       \* GmailClient(max_retries=...)
MaxWrites == 3        \* tracker writes after which Spec starts no new operation
MaxRunStart == 1      \* tracker writes after which Spec starts no run()
MaxLimit == 1         \* limit arguments are None or 0..MaxLimit
MaxOffset == 1        \* offset arguments are 0..MaxOffset
MaxBatchSize == 1     \* batch_size arguments are None or 1..MaxBatchSize
IdTailLen == 2        \* SpecWriter: characters of a message ID after the common stem
MaxSeconds == 3       \* SpecBackoff: backoff arguments are 0..MaxSeconds seconds
MaxPages == 3         \* SpecPages: page requests of one discover_message_ids
MaxDocs == 2          \* SpecWriter: documents the output directory has room for
MaxDays == 1          \* SpecWriter: calendar days the message dates range over

MsgIds == 1..NumMsgs
ThreadIds == {1, 2}
Labels == {"INBOX", "SENT"}

Min(a, b) == IF a <= b THEN a ELSE b
Max(a, b) == IF a >= b THEN a ELSE b
Range(s) == {s[i] : i \in 1..Len(s)}

\* `limit: int | None`: None is written NoLimit (the CLI rejects negatives).
NoLimit == -1

(***************************************************************************)
(* FetchTracker: the messages table as a sequence of rows in rowid order.  *)
(***************************************************************************)
VALID_STATUSES == {"pending", "fetched", "converted", "failed"}

\* a row as INSERT ... (message_id, thread_id, label_id, status, created_at,
\* updated_at) creates it, the other columns taking their DEFAULT ''
NewRow(message_id, thread_id, label_id, now) ==
  [message_id |-> message_id, thread_id |-> thread_id, label_id |-> label_id,
   status |-> "pending", subject |-> "", sender |-> "", date |-> "",
   raw_text_path |-> "", raw_html_path |-> "", markdown_path |-> "",
   error_message |-> "", created_at |-> now, updated_at |-> now]

is_tracked(t, message_id) == \E i \in 1..Len(t) : t[i].message_id = message_id

\* SELECT * FROM messages WHERE message_id = ?  (None is written <<>>)
get_message(t, message_id) ==
  IF is_tracked(t, message_id)
  THEN t[CHOOSE i \in 1..Len(t) : t[i].message_id = message_id]
  ELSE <<>>

\* INSERT OR REPLACE: the row of an already tracked ID is rewritten
insert_or_replace(t, row) ==
  IF is_tracked(t, row.message_id)
  THEN [i \in 1..Len(t) |-> IF t[i].message_id = row.message_id THEN row ELSE t[i]]
  ELSE Append(t, row)

\* a plain INSERT that takes no notice of the primary key
insert_unchecked(t, row) == Append(t, row)

\* INSERT OR IGNORE on the primary key message_id
insert_or_ignore(t, row) ==
  IF is_tracked(t, row.message_id) THEN t ELSE Append(t, row)

\* executemany over the stubs, all rows carrying the same `now`
RECURSIVE bulk_insert_pending(_, _, _, _)
bulk_insert_pending(t, stubs, label_id, now) ==
  IF stubs = <<>> THEN t
  ELSE bulk_insert_pending(
         insert_or_ignore(t, NewRow(Head(stubs)[1], Head(stubs)[2], label_id, now)),
         Tail(stubs), label_id, now)

\* a count of the rows handed to executemany, inserted or not
bulk_insert_attempted(t, stubs, label_id, now) == Len(stubs)

\* cursor.rowcount of the executemany: the rows actually inserted
bulk_insert_rowcount(t, stubs, label_id, now) ==
  Len(bulk_insert_pending(t, stubs, label_id, now)) - Len(t)

\* the keyword arguments of update_status, all defaulting to ""
NoFields ==
  [subject |-> "", sender |-> "", date |-> "", raw_text_path |-> "",
   raw_html_path |-> "", markdown_path |-> "", error_message |-> ""]

\* a validation that lets every status through
status_rejected_never(status) == FALSE

\* `if status not in VALID_STATUSES: raise ValueError(...)`
status_rejected(status) == status \notin VALID_STATUSES

\* the same UPDATE without its WHERE clause: every row is written
update_status_every_row(t, message_id, status, f, now) ==
  [i \in 1..Len(t) |->
     [t[i] EXCEPT !.status = status, !.updated_at = now,
                  !.error_message = IF f.error_message # "" THEN f.error_message ELSE @]]

\* the same UPDATE with every optional column in its SET list
update_status_all_fields(t, message_id, status, f, now) ==
  [i \in 1..Len(t) |->
     IF t[i].message_id = message_id
     THEN [t[i] EXCEPT
             !.status = status, !.updated_at = now,
             !.subject = f.subject, !.sender = f.sender, !.date = f.date,
             !.raw_text_path = f.raw_text_path, !.raw_html_path = f.raw_html_path,
             !.markdown_path = f.markdown_path, !.error_message = f.error_message]
     ELSE t[i]]

\* an upsert: the UPDATE, and an INSERT of the row when no row matched
update_status_upsert(t, message_id, status, f, now) ==
  IF is_tracked(t, message_id)
  THEN [i \in 1..Len(t) |->
          IF t[i].message_id = message_id
          THEN [t[i] EXCEPT
                  !.status = status, !.updated_at = now,
                  !.subject = IF f.subject # "" THEN f.subject ELSE @,
                  !.sender = IF f.sender # "" THEN f.sender ELSE @,
                  !.date = IF f.date # "" THEN f.date ELSE @,
                  !.raw_text_path = IF f.raw_text_path # "" THEN f.raw_text_path ELSE @,
                  !.raw_html_path = IF f.raw_html_path # "" THEN f.raw_html_path ELSE @,
                  !.markdown_path = IF f.markdown_path # "" THEN f.markdown_path ELSE @,
                  !.error_message = IF f.error_message # "" THEN f.error_message ELSE @]
          ELSE t[i]]
  ELSE Append(t, [NewRow(message_id, 0, "", now) EXCEPT !.status = status])

\* UPDATE messages SET status, updated_at, <non-empty fields> WHERE message_id = ?
update_status(t, message_id, status, f, now) ==
  [i \in 1..Len(t) |->
     IF t[i].message_id = message_id
     THEN [t[i] EXCEPT
             !.status = status,
             !.updated_at = now,
             !.subject = IF f.subject # "" THEN f.subject ELSE @,
             !.sender = IF f.sender # "" THEN f.sender ELSE @,
             !.date = IF f.date # "" THEN f.date ELSE @,
             !.raw_text_path = IF f.raw_text_path # "" THEN f.raw_text_path ELSE @,
             !.raw_html_path = IF f.raw_html_path # "" THEN f.raw_html_path ELSE @,
             !.markdown_path = IF f.markdown_path # "" THEN f.markdown_path ELSE @,
             !.error_message = IF f.error_message # "" THEN f.error_message ELSE @]
     ELSE t[i]]

\* an UPDATE that sets the status but leaves the error message
retry_failed_keeps_error(t, now) ==
  [i \in 1..Len(t) |->
     IF t[i].status = "failed"
     THEN [t[i] EXCEPT !.status = "pending", !.updated_at = now]
     ELSE t[i]]

\* an UPDATE that clears the error message but sets no status
retry_failed_keeps_status(t, now) ==
  [i \in 1..Len(t) |->
     IF t[i].status = "failed"
     THEN [t[i] EXCEPT !.error_message = "", !.updated_at = now]
     ELSE t[i]]

\* the same UPDATE with WHERE status != 'converted'
retry_failed_unconverted(t, now) ==
  [i \in 1..Len(t) |->
     IF t[i].status # "converted"
     THEN [t[i] EXCEPT !.status = "pending", !.error_message = "", !.updated_at = now]
     ELSE t[i]]

\* UPDATE messages SET status = 'pending', error_message = '', updated_at = ?
\* WHERE status = 'failed'
retry_failed(t, now) ==
  [i \in 1..Len(t) |->
     IF t[i].status = "failed"
     THEN [t[i] EXCEPT !.status = "pending", !.error_message = "", !.updated_at = now]
     ELSE t[i]]

\* cursor.rowcount of retry_failed
retry_failed_rowcount(t) == Cardinality({i \in 1..Len(t) : t[i].status = "failed"})

\* ORDER BY created_at: SQLite's sorter keeps rows with equal keys in scan
\* (rowid) order, so the sort is a stable insertion sort
RECURSIVE InsertByCreatedAt(_, _)
InsertByCreatedAt(sorted, row) ==
  IF sorted = <<>> THEN <<row>>
  ELSE IF sorted[Len(sorted)].created_at <= row.created_at
       THEN Append(sorted, row)
       ELSE Append(InsertByCreatedAt(SubSeq(sorted, 1, Len(sorted) - 1), row),
                   sorted[Len(sorted)])

RECURSIVE OrderByCreatedAt(_)
OrderByCreatedAt(rows) ==
  IF rows = <<>> THEN <<>>
  ELSE InsertByCreatedAt(OrderByCreatedAt(SubSeq(rows, 1, Len(rows) - 1)),
                         rows[Len(rows)])

\* a SELECT without the WHERE clause
where_any_status(t, status) == t

\* WHERE status = ?
RECURSIVE WhereStatus(_, _)
WhereStatus(t, status) ==
  IF t = <<>> THEN <<>>
  ELSE IF Head(t).status = status
       THEN <<Head(t)>> \o WhereStatus(Tail(t), status)
       ELSE WhereStatus(Tail(t), status)

\* a LIMIT without its OFFSET
limit_without_offset(s, limit, offset) == SubSeq(s, 1, Min(Len(s), limit))

\* LIMIT ? OFFSET ?
LimitOffset(s, limit, offset) == SubSeq(s, offset + 1, Min(Len(s), offset + limit))

\* the same query without its OFFSET
get_ids_from_first(t, status, limit, offset) ==
  LET rows == LimitOffset(OrderByCreatedAt(WhereStatus(t, status)), limit, 0)
  IN [i \in 1..Len(rows) |-> rows[i].message_id]

\* SELECT message_id ... WHERE status = ? ORDER BY created_at LIMIT ? OFFSET ?
get_ids(t, status, limit, offset) ==
  LET rows == LimitOffset(OrderByCreatedAt(WhereStatus(t, status)), limit, offset)
  IN [i \in 1..Len(rows) |-> rows[i].message_id]

get_pending_ids(t, limit, offset) == get_ids(t, "pending", limit, offset)

get_fetched_ids(t, limit, offset) == get_ids(t, "fetched", limit, offset)

\* SELECT status, COUNT(*) ... GROUP BY status (an absent status counts 0)
count_by_status(t) ==
  [s \in VALID_STATUSES |-> Cardinality({i \in 1..Len(t) : t[i].status = s})]

(***************************************************************************)
(* GmailClient: rate-limit detection and the retry loops.                  *)
(* An exception is [kind, status_code, markers]: its class, the HTTP       *)
(* status of an HttpError, and the markers its str() contains.             *)
(***************************************************************************)
InitialBackoff == 1     \* initial_backoff_seconds
MaxBackoff == 60        \* max_backoff_seconds

NoExc == [kind |-> "none", status_code |-> 0, markers |-> {}]
Http429 == [kind |-> "HttpError", status_code |-> 429, markers |-> {"429"}]
TextRateLimit == [kind |-> "Exception", status_code |-> 0, markers |-> {"rateLimitExceeded"}]
NetworkTimeout == [kind |-> "Exception", status_code |-> 0, markers |-> {}]
Exceptions == {Http429, TextRateLimit, NetworkTimeout}

is_rate_limit_error(exc) ==
  \/ exc.kind = "HttpError" /\ exc.status_code = 429
  \/ "429" \in exc.markers
  \/ "rateLimitExceeded" \in exc.markers

\* `if attempt > self._max_retries`: never true inside the loop
retries_exhausted_late(attempt, max_retries) == attempt > max_retries

\* `if attempt >= self._max_retries`
retries_exhausted(attempt, max_retries) == attempt >= max_retries

\* the locals of one call of _execute_with_retry / fetch_messages_batch, with
\* the history of the call: what each attempt requested and received, and the
\* upper bound of each sleep (the sleep is uniform(0, bound))
IdleClient ==
  [op |-> "idle", message_ids |-> <<>>, attempt |-> 0, backoff |-> 0,
   results |-> <<>>, outcome |-> "none",
   attempts |-> 0, sleeps |-> <<>>, requests |-> <<>>, trace |-> <<>>]

StartCall(method, message_ids) ==
  [IdleClient EXCEPT !.op = method, !.message_ids = message_ids,
                     !.backoff = InitialBackoff, !.outcome = "running"]

\* a sleep bound that is the backoff itself
sleep_time_uncapped(backoff, max_backoff) == backoff

\* `sleep_time = min(backoff, self._max_backoff)`, the upper bound of the
\* jitter random.uniform(0, sleep_time) that is slept
sleep_time(backoff, max_backoff) == Min(backoff, max_backoff)

\* retry every failure, rate-limited or not
backoff_and_continue_any(c, rate_limited, max_retries, max_backoff) ==
  IF retries_exhausted(c.attempt, max_retries)
  THEN [c EXCEPT !.outcome = "RateLimitError"]
  ELSE [c EXCEPT !.sleeps = Append(@, Min(c.backoff, max_backoff)),
                 !.backoff = Min(c.backoff * 2, max_backoff),
                 !.attempt = @ + 1,
                 !.outcome = IF c.attempt + 1 > max_retries
                             THEN "RateLimitError" ELSE "running"]

\* the rate-limited branch shared by both loops: raise when the retries are
\* used up, else sleep, double the backoff and go round the for loop again
\* (a loop that runs out of iterations falls through to the final raise)
backoff_and_continue_with(c, rate_limited, max_retries, max_backoff) ==
  IF ~rate_limited THEN [c EXCEPT !.outcome = "GmailIngestorError"]
  ELSE IF retries_exhausted(c.attempt, max_retries)
  THEN [c EXCEPT !.outcome = "RateLimitError"]
  ELSE [c EXCEPT !.sleeps = Append(@, sleep_time(c.backoff, max_backoff)),
                 !.backoff = Min(c.backoff * 2, max_backoff),
                 !.attempt = @ + 1,
                 !.outcome = IF c.attempt + 1 > max_retries
                             THEN "RateLimitError" ELSE "running"]

\* the same for a client constructed with the defaults of the backoff
backoff_and_continue(c, rate_limited) ==
  backoff_and_continue_with(c, rate_limited, MaxRetries, MaxBackoff)

\* one iteration of the loop of _execute_with_retry; exc is what
\* request.execute raised (NoExc: it returned the response)
execute_attempt_with(c, exc, max_retries, max_backoff) ==
  LET c1 == [c EXCEPT !.attempts = @ + 1, !.trace = Append(@, exc),
                      !.requests = Append(@, c.message_ids)]
  IN IF exc = NoExc
     THEN [c1 EXCEPT !.outcome = "returned"]
     ELSE backoff_and_continue_with(c1, is_rate_limit_error(exc), max_retries,
                                    max_backoff)

\* the same for a client constructed with the defaults of the backoff
execute_attempt(c, exc) == execute_attempt_with(c, exc, MaxRetries, MaxBackoff)

\* a callback that takes every exception for a rate-limit signal
callback_any_exception(acc, request_id, sub) ==
  IF sub.exception # NoExc
  THEN [acc EXCEPT !.rate_limited = TRUE, !.errors = @ + 1]
  ELSE IF sub.response
       THEN [acc EXCEPT !.results = Append(@, [id |-> request_id])]
       ELSE acc

\* _callback(request_id, response, exception) on the accumulator
\* [results, errors, rate_limited]; sub is [response, exception]
callback(acc, request_id, sub) ==
  IF sub.exception # NoExc
  THEN IF is_rate_limit_error(sub.exception)
       THEN [acc EXCEPT !.rate_limited = TRUE, !.errors = @ + 1]
       ELSE [acc EXCEPT !.errors = @ + 1]
  ELSE IF sub.response
       THEN [acc EXCEPT !.results = Append(@, [id |-> request_id])]
       ELSE acc

\* batch.execute() that got through: one callback per added request, in order
RECURSIVE run_callbacks(_, _, _, _)
run_callbacks(acc, requested, subs, i) ==
  IF i > Len(requested) THEN acc
  ELSE run_callbacks(callback(acc, requested[i], subs[i]), requested, subs, i + 1)

\* the results list an attempt starts with, were it kept across attempts
attempt_results_kept(previous) == previous

\* `results: list = []` at the top of every attempt
attempt_results(previous) == <<>>

\* the IDs added to the batch of an attempt, were only the first one re-added
batch_requests_first_only(message_ids, attempt) ==
  IF attempt = 0 THEN message_ids ELSE SubSeq(message_ids, 1, 1)

\* `for msg_id in message_ids: batch.add(...)`, the same in every attempt
batch_requests(message_ids, attempt) == message_ids

\* one iteration of the loop of fetch_messages_batch; env is what the API did:
\* [transport |-> the exception batch.execute raised, subs |-> per request the
\* response or exception handed to the callback].  googleapiclient runs the
\* callbacks after the transport succeeded, so a raising execute runs none.
batch_attempt(c, env) ==
  LET requested == batch_requests(c.message_ids, c.attempt)
      acc0 == [results |-> attempt_results(c.results), errors |-> 0,
               rate_limited |-> FALSE]
      acc == IF env.transport = NoExc
             THEN run_callbacks(acc0, requested, env.subs, 1)
             ELSE acc0
      rate_limited == acc.rate_limited
                        \/ (env.transport # NoExc /\ is_rate_limit_error(env.transport))
      c1 == [c EXCEPT !.attempts = @ + 1, !.trace = Append(@, env),
                      !.requests = Append(@, requested), !.results = acc.results]
  IN IF env.transport # NoExc /\ ~is_rate_limit_error(env.transport)
     THEN [c1 EXCEPT !.outcome = "GmailIngestorError"]
     ELSE IF rate_limited
          THEN backoff_and_continue(c1, TRUE)
          ELSE [c1 EXCEPT !.outcome = "returned"]

\* what the API can do to one sub-request: a message, nothing, an exception
SubOutcomes ==
  {[response |-> TRUE, exception |-> NoExc], [response |-> FALSE, exception |-> NoExc]}
    \cup {[response |-> FALSE, exception |-> e] : e \in Exceptions}

\* what the API can do to a batch of n requests
BatchEnvs(n) ==
  {[transport |-> e, subs |-> <<>>] : e \in Exceptions}
    \cup {[transport |-> NoExc, subs |-> subs] : subs \in [1..n -> SubOutcomes]}

\* _execute_with_retry run to its end against a script of what the successive
\* request.execute calls raise
RECURSIVE execute_loop(_, _)
execute_loop(c, script) ==
  IF c.outcome # "running" \/ script = <<>> THEN c
  ELSE execute_loop(execute_attempt(c, Head(script)), Tail(script))

execute_with_retry(method, script) == execute_loop(StartCall(method, <<>>), script)

\* fetch_messages_batch run to its end against a script of what the API does
\* to the successive batches
RECURSIVE batch_loop(_, _)
batch_loop(c, script) ==
  IF c.outcome # "running" \/ script = <<>> THEN c
  ELSE batch_loop(batch_attempt(c, Head(script)), Tail(script))

fetch_messages_batch(message_ids, script) ==
  batch_loop(StartCall("fetch_messages_batch", message_ids), script)

(***************************************************************************)
(* EmailIngestor: the pure parts of the stage loops.                       *)
(***************************************************************************)
SettingsBatchSize == 2    \* settings.batch_size
SettingsLabel == "INBOX"  \* settings.label

\* `if limit is not None and total_collected > limit`
limit_reached_strict(limit, total_collected) ==
  limit # NoLimit /\ total_collected > limit

\* `if limit is not None and total_collected >= limit`
limit_reached(limit, total_collected) ==
  limit # NoLimit /\ total_collected >= limit

\* the inner loop of run_discovery over the stubs of one page, from the
\* counters d = [stubs_to_insert, total_seen, total_collected]
RECURSIVE collect_page(_, _, _, _)
collect_page(d, page, limit, offset) ==
  IF page = <<>> THEN d
  ELSE LET seen == d.total_seen + 1
       IN IF seen <= offset
          THEN collect_page([d EXCEPT !.total_seen = seen], Tail(page), limit, offset)
          ELSE LET d1 == [d EXCEPT !.total_seen = seen,
                                   !.stubs_to_insert = Append(@, Head(page)),
                                   !.total_collected = @ + 1]
               IN IF limit_reached(limit, d1.total_collected)
                  THEN d1
                  ELSE collect_page(d1, Tail(page), limit, offset)

\* `batch_size or self._settings.batch_size` (None is written 0)
effective_batch_size(batch_size) ==
  IF batch_size = 0 THEN SettingsBatchSize ELSE batch_size

\* a query limit that is the whole batch size while any quota is left
query_limit_whole_batch(limit, total, batch_size) ==
  IF limit # NoLimit /\ limit - total <= 0 THEN 0
  ELSE effective_batch_size(batch_size)

\* the head of the while loop of both stages: the LIMIT of the next query, or
\* 0 when the quota under `limit` is used up (the loop breaks)
query_limit(limit, total, batch_size) ==
  IF limit = NoLimit THEN effective_batch_size(batch_size)
  ELSE IF limit - total <= 0 THEN 0
  ELSE Min(effective_batch_size(batch_size), limit - total)

\* the paths RawEmailStore.store writes and returns
RawTextPath(message_id) == "raw/" \o ToString(message_id) \o ".txt"

RawHtmlPath(message_id) == "raw/" \o ToString(message_id) \o ".html"

\* a writer that returns no path
MarkdownPath_none(message_id) == ""

\* the path MarkdownWriter.write writes and returns
MarkdownPath(message_id) == "markdown/" \o ToString(message_id) \o ".md"

\* the sweep after the per-message loop of run_fetch_pending, marking failed
\* whatever was requested, is not in fetched_ids and is untracked or still
\* pending; w = [messages, clock, failed]
sweep_condition_any(record) == TRUE

sweep_condition_untracked(record) == record = <<>>

sweep_condition(record) == record = <<>> \/ record.status = "pending"

RECURSIVE mark_missing(_, _, _)
mark_missing(w, pending_ids, fetched_ids) ==
  IF pending_ids = <<>> THEN w
  ELSE LET msg_id == Head(pending_ids)
           hit == /\ msg_id \notin fetched_ids
                  /\ sweep_condition(get_message(w.messages, msg_id))
           w1 == IF hit
                 THEN [messages |-> update_status(w.messages, msg_id, "failed",
                                     [NoFields EXCEPT !.error_message =
                                        "Not returned in batch response"],
                                     w.clock + 1),
                       clock |-> w.clock + 1,
                       failed |-> w.failed + 1]
                 ELSE w
       IN mark_missing(w1, Tail(pending_ids), fetched_ids)

(***************************************************************************)
(* State.                                                                  *)
(***************************************************************************)
VARIABLES
  messages,     \* FetchTracker: the messages table
  clock,        \* datetime.now(UTC) of the latest tracker write
  last_call,    \* SpecTracker: the tracker method called last, with its result
  client,       \* SpecClient: the GmailClient call in progress or just finished
  fetch_runs,   \* FetchTracker: the fetch_runs table, run_id being the index
  files,        \* the paths that exist under the raw and markdown directories
  progress,     \* EmailIngestor._progress
  pc,           \* where the orchestrator stands
  op,           \* the top-level EmailIngestor call in progress, with the arguments
                \* of the stage it is in
  disc,         \* run_discovery: the pages still to come and the loop counters
  work,         \* run_fetch_pending / run_convert_pending: the loop locals
  ret,          \* the latest stage or top-level call that ended, with its result
  proc          \* the operating-system process: the tracker connection of its
                \* ingestor and, for a CLI process, the command and its exit

storeVars == <<messages, clock>>
pipeVars == <<fetch_runs, files, progress, pc, op, disc, work, ret, proc>>
vars == <<messages, clock, last_call, client, fetch_runs, files, progress, pc, op,
          disc, work, ret, proc>>

\* FetchProgress(), with what the progress callback has been handed of it:
\* `pushed` says that the counters as they stand were handed to on_progress,
\* `skipped` that a counter was changed again before its value was handed over
FetchProgress0 ==
  [ids_discovered |-> 0, messages_fetched |-> 0, messages_converted |-> 0,
   messages_failed |-> 0, current_stage |-> "idle", pushed |-> TRUE,
   skipped |-> FALSE]

\* self._notify(): on_progress(self._progress)
notify(p) == [p EXCEPT !.pushed = TRUE]

\* `self._progress.<counter> += k`
counted(p, counter, k) ==
  [p EXCEPT ![counter] = @ + k, !.skipped = @ \/ ~p.pushed, !.pushed = FALSE]

\* n times `self._progress.messages_failed += 1`, no _notify between them
\* a sweep that counts one failure however many records it fails
counted_failed_once(p, n) ==
  IF n = 0 THEN p ELSE counted(p, "messages_failed", 1)

RECURSIVE counted_failed(_, _)
counted_failed(p, n) ==
  IF n = 0 THEN p ELSE counted_failed(counted(p, "messages_failed", 1), n - 1)

\* started_at is the tracker clock at which the stage in progress was entered
NoOp ==
  [name |-> "none", label_id |-> "", limit |-> NoLimit, offset |-> 0, batch_size |-> 0,
   run_id |-> 0, adapter_error |-> "none", started_at |-> 0]

NoDisc ==
  [remaining |-> <<>>, total_new |-> 0, total_seen |-> 0, total_collected |-> 0,
   collected |-> <<>>, listing |-> <<>>, available |-> 0, requests |-> 0]

\* requests: the ID lists passed to fetch_messages_batch by the stage call so
\* far (what the call log of the client holds)
NoWork == [ids |-> <<>>, queue |-> <<>>, returned |-> {}, fetched_ids |-> {}, total |-> 0,
           requests |-> <<>>]

NoRet == [outcome |-> "none", value |-> 0]

\* no exit status: the process has not exited
NoExit == -1

\* a process that uses the library and has not called the ingestor yet; a CLI
\* process has a command and goes through the phases running, exiting, exited.
\* crashed tells that a process before this one died in a stage, and
\* total_changes is sqlite3's count of the rows the connection has written.
NoProc ==
  [phase |-> "library", command |-> "", signal |-> "none", exit_code |-> NoExit,
   conn |-> "none", crashed |-> FALSE, total_changes |-> 0]

\* _ensure_initialized: the tracker is created and connected unless it exists
ensure_initialized(p) ==
  [p EXCEPT !.conn = IF @ = "none" THEN "open" ELSE @]

PipeIdle ==
  /\ fetch_runs = <<>>
  /\ files = {}
  /\ progress = FetchProgress0
  /\ pc = "idle"
  /\ op = NoOp
  /\ disc = NoDisc
  /\ work = NoWork
  /\ ret = NoRet
  /\ proc = NoProc

\* status is the status argument of update_status, args the other arguments
\* of a call, raised the exception the call ended with, before the method
\* called just before this one
NoCall ==
  [op |-> "none", ids |-> <<>>, args |-> <<>>, status |-> "", ret |-> 0, raised |-> "",
   before |-> "none"]

(***************************************************************************)
(* SpecTracker: the FetchTracker methods called directly.                  *)
(***************************************************************************)
\* lists of (message_id, thread_id) stubs handed to bulk_insert_pending: empty,
\* one stub, two stubs, the same ID twice, a known ID under another thread
StubLists ==
  {<<>>, <<<<1, 2>>>>, <<<<1, 1>>, <<1, 1>>>>}
    \cup {<<<<m, 1>>>> : m \in MsgIds}
    \cup {<<<<m, 1>>, <<m + 1, 1>>>> : m \in 1..(NumMsgs - 1)}

FetchedArgsA ==
  [NoFields EXCEPT !.subject = "Subject A", !.sender = "a@x", !.date = "2024-01-15",
                   !.raw_text_path = "raw/a.txt"]

FetchedArgsB == [NoFields EXCEPT !.subject = "Subject B", !.raw_html_path = "raw/b.html"]

\* (status, keyword arguments) pairs handed to update_status
UpdateArgs ==
  {<<"pending", NoFields>>, <<"fetched", FetchedArgsA>>, <<"fetched", FetchedArgsB>>,
   <<"converted", [NoFields EXCEPT !.markdown_path = "md/a.md"]>>,
   <<"failed", [NoFields EXCEPT !.error_message = "parse error"]>>,
   <<"failed", NoFields>>, <<"done", FetchedArgsA>>}

TrackerInit ==
  /\ messages = <<>>
  /\ clock = 0
  /\ last_call = NoCall
  /\ client = IdleClient
  /\ PipeIdle

T_BulkInsertPending(stubs, label_id) ==
  /\ clock < MaxClock
  /\ clock' = clock + 1
  /\ messages' = bulk_insert_pending(messages, stubs, label_id, clock')
  /\ last_call' = [NoCall EXCEPT
                     !.op = "bulk_insert_pending",
                     !.ids = [i \in 1..Len(stubs) |-> stubs[i][1]],
                     !.ret = bulk_insert_rowcount(messages, stubs, label_id, clock'),
                     !.before = last_call.op]
  /\ UNCHANGED <<client, pipeVars>>

T_UpdateStatus(message_id, status, f) ==
  /\ clock < MaxClock
  /\ IF status_rejected(status)
     THEN /\ last_call' = [NoCall EXCEPT !.op = "update_status", !.ids = <<message_id>>,
                                         !.status = status, !.raised = "ValueError",
                                         !.before = last_call.op]
          /\ UNCHANGED <<messages, clock>>
     ELSE /\ clock' = clock + 1
          /\ messages' = update_status(messages, message_id, status, f, clock')
          /\ last_call' = [NoCall EXCEPT !.op = "update_status", !.ids = <<message_id>>,
                                         !.status = status, !.args = f,
                                         !.before = last_call.op]
  /\ UNCHANGED <<client, pipeVars>>

T_RetryFailed ==
  /\ clock < MaxClock
  /\ clock' = clock + 1
  /\ messages' = retry_failed(messages, clock')
  /\ last_call' = [NoCall EXCEPT !.op = "retry_failed",
                                  !.ret = retry_failed_rowcount(messages),
                                  !.before = last_call.op]
  /\ UNCHANGED <<client, pipeVars>>

TrackerNext ==
  \/ \E stubs \in StubLists, label_id \in Labels : T_BulkInsertPending(stubs, label_id)
  \/ \E m \in MsgIds, a \in UpdateArgs : T_UpdateStatus(m, a[1], a[2])
  \/ T_RetryFailed

SpecTracker == TrackerInit /\ [][TrackerNext]_vars

(***************************************************************************)
(* SpecWindows: get_pending_ids and get_fetched_ids read in windows over   *)
(* stores built by bulk inserts, which give the rows of one call the same  *)
(* created_at, and updates to fetched.                                     *)
(***************************************************************************)
WindowLimits == 1..NumMsgs
WindowOffsets == 0..NumMsgs

\* get_pending_ids(limit, offset) / get_fetched_ids(limit, offset)
T_GetIds(status, limit, offset) ==
  /\ last_call' = [NoCall EXCEPT
                     !.op = IF status = "pending" THEN "get_pending_ids"
                                                  ELSE "get_fetched_ids",
                     !.status = status,
                     !.args = [limit |-> limit, offset |-> offset],
                     !.ret = get_ids(messages, status, limit, offset),
                     !.before = last_call.op]
  /\ UNCHANGED <<messages, clock, client, pipeVars>>

WindowsNext ==
  \/ \E stubs \in StubLists : T_BulkInsertPending(stubs, SettingsLabel)
  \/ \E m \in MsgIds : T_UpdateStatus(m, "fetched", NoFields)
  \/ \E status \in {"pending", "fetched"}, limit \in WindowLimits,
        offset \in WindowOffsets : T_GetIds(status, limit, offset)

SpecWindows == TrackerInit /\ [][WindowsNext]_vars

(***************************************************************************)
(* SpecInsert: insert_pending among other writes, on connections that are  *)
(* opened one after the other on the same database.                        *)
(***************************************************************************)
\* FetchTracker.connect: a new sqlite3 connection, which has changed no row
I_Connect ==
  /\ proc' = [proc EXCEPT !.conn = "open", !.total_changes = 0]
  /\ last_call' = [NoCall EXCEPT !.op = "connect", !.before = last_call.op]
  /\ UNCHANGED <<messages, clock, client, fetch_runs, files, progress, pc, op, disc,
                 work, ret>>

\* `return self.conn.total_changes > 0`
insert_pending_result(total_changes) == total_changes > 0

\* insert_pending; error: conn.execute raises sqlite3.Error
I_InsertPending(message_id, thread_id, error) ==
  /\ proc.conn = "open"
  /\ clock < MaxClock
  /\ IF error
     THEN /\ last_call' = [NoCall EXCEPT !.op = "insert_pending", !.ids = <<message_id>>,
                                         !.ret = FALSE, !.raised = "sqlite3.Error",
                                         !.before = last_call.op]
          /\ UNCHANGED <<messages, clock, proc>>
     ELSE LET inserted == ~is_tracked(messages, message_id)
              total_changes == proc.total_changes + (IF inserted THEN 1 ELSE 0)
          IN /\ messages' = insert_or_ignore(messages,
                              NewRow(message_id, thread_id, SettingsLabel, clock + 1))
             /\ clock' = IF inserted THEN clock + 1 ELSE clock
             /\ proc' = [proc EXCEPT !.total_changes = total_changes]
             /\ last_call' = [NoCall EXCEPT
                                !.op = "insert_pending", !.ids = <<message_id>>,
                                !.ret = insert_pending_result(total_changes),
                                !.before = last_call.op]
  /\ UNCHANGED <<client, fetch_runs, files, progress, pc, op, disc, work, ret>>

\* update_status(message_id, "fetched") on the same connection: the UPDATE
\* changes the row of the message, if there is one
I_UpdateStatus(message_id) ==
  /\ proc.conn = "open"
  /\ clock < MaxClock
  /\ clock' = clock + 1
  /\ messages' = update_status(messages, message_id, "fetched", NoFields, clock')
  /\ proc' = [proc EXCEPT !.total_changes =
                @ + (IF is_tracked(messages, message_id) THEN 1 ELSE 0)]
  /\ last_call' = [NoCall EXCEPT !.op = "update_status", !.ids = <<message_id>>,
                                 !.status = "fetched", !.before = last_call.op]
  /\ UNCHANGED <<client, fetch_runs, files, progress, pc, op, disc, work, ret>>

InsertNext ==
  \/ I_Connect
  \/ \E m \in MsgIds, thread_id \in ThreadIds, error \in BOOLEAN :
       I_InsertPending(m, thread_id, error)
  \/ \E m \in MsgIds : I_UpdateStatus(m)

SpecInsert == TrackerInit /\ [][InsertNext]_vars

(***************************************************************************)
(* SpecGrowth: every FetchTracker method that writes the messages table,   *)
(* called on one open connection after the other.                          *)
(***************************************************************************)
\* bulk_insert_pending on the open connection
G_BulkInsertPending(stubs) ==
  /\ proc.conn = "open"
  /\ clock < MaxClock
  /\ clock' = clock + 1
  /\ messages' = bulk_insert_pending(messages, stubs, SettingsLabel, clock')
  /\ proc' = [proc EXCEPT !.total_changes =
                @ + bulk_insert_rowcount(messages, stubs, SettingsLabel, clock')]
  /\ last_call' = [NoCall EXCEPT
                     !.op = "bulk_insert_pending",
                     !.ids = [i \in 1..Len(stubs) |-> stubs[i][1]],
                     !.ret = bulk_insert_rowcount(messages, stubs, SettingsLabel, clock'),
                     !.before = last_call.op]
  /\ UNCHANGED <<client, fetch_runs, files, progress, pc, op, disc, work, ret>>

\* update_status with a valid status on the open connection
G_UpdateStatus(message_id, status, f) ==
  /\ proc.conn = "open"
  /\ clock < MaxClock
  /\ ~status_rejected(status)
  /\ clock' = clock + 1
  /\ messages' = update_status(messages, message_id, status, f, clock')
  /\ proc' = [proc EXCEPT !.total_changes =
                @ + (IF is_tracked(messages, message_id) THEN 1 ELSE 0)]
  /\ last_call' = [NoCall EXCEPT !.op = "update_status", !.ids = <<message_id>>,
                                 !.status = status, !.args = f,
                                 !.before = last_call.op]
  /\ UNCHANGED <<client, fetch_runs, files, progress, pc, op, disc, work, ret>>

\* retry_failed on the open connection
G_RetryFailed ==
  /\ proc.conn = "open"
  /\ clock < MaxClock
  /\ clock' = clock + 1
  /\ messages' = retry_failed(messages, clock')
  /\ proc' = [proc EXCEPT !.total_changes = @ + retry_failed_rowcount(messages)]
  /\ last_call' = [NoCall EXCEPT !.op = "retry_failed",
                                  !.ret = retry_failed_rowcount(messages),
                                  !.before = last_call.op]
  /\ UNCHANGED <<client, fetch_runs, files, progress, pc, op, disc, work, ret>>

\* (status, keyword arguments) pairs handed to update_status
GrowthArgs ==
  {<<"fetched", NoFields>>,
   <<"failed", [NoFields EXCEPT !.error_message = "parse error"]>>}

GrowthNext ==
  \/ I_Connect
  \/ \E m \in MsgIds, error \in BOOLEAN : I_InsertPending(m, 1, error)
  \/ \E stubs \in StubLists : G_BulkInsertPending(stubs)
  \/ \E m \in MsgIds, a \in GrowthArgs : G_UpdateStatus(m, a[1], a[2])
  \/ G_RetryFailed

SpecGrowth == TrackerInit /\ [][GrowthNext]_vars

(***************************************************************************)
(* SpecClient: the GmailClient methods, one API attempt a step.            *)
(***************************************************************************)
\* the ID lists handed to fetch_messages_batch
BatchLists == {<<1>>, <<1, 2>>, <<2, 1>>}

ClientInit ==
  /\ messages = <<>>
  /\ clock = 0
  /\ last_call = NoCall
  /\ client = IdleClient
  /\ PipeIdle

\* list_labels / one page of discover_message_ids enter _execute_with_retry
C_StartRequest(request) ==
  /\ client.outcome # "running"
  /\ client' = StartCall(request, <<>>)
  /\ UNCHANGED <<messages, clock, last_call, pipeVars>>

C_ExecuteAttempt(exc) ==
  /\ client.outcome = "running"
  /\ client.op \in {"list_labels", "list_messages"}
  /\ client' = execute_attempt(client, exc)
  /\ UNCHANGED <<messages, clock, last_call, pipeVars>>

C_StartBatch(message_ids) ==
  /\ client.outcome # "running"
  /\ client' = StartCall("fetch_messages_batch", message_ids)
  /\ UNCHANGED <<messages, clock, last_call, pipeVars>>

C_BatchAttempt(env) ==
  /\ client.outcome = "running"
  /\ client.op = "fetch_messages_batch"
  /\ client' = batch_attempt(client, env)
  /\ UNCHANGED <<messages, clock, last_call, pipeVars>>

ClientNext ==
  \/ \E request \in {"list_labels", "list_messages"} : C_StartRequest(request)
  \/ \E exc \in Exceptions \cup {NoExc} : C_ExecuteAttempt(exc)
  \/ \E ids \in BatchLists : C_StartBatch(ids)
  \/ \E env \in BatchEnvs(Len(client.message_ids)) : C_BatchAttempt(env)

SpecClient == ClientInit /\ [][ClientNext]_vars

(***************************************************************************)
(* SpecBackoff: _execute_with_retry of clients constructed with other      *)
(* backoffs than the defaults.  last_call holds the constructor arguments  *)
(* and the arguments of the time.sleep calls of the current request.       *)
(***************************************************************************)
BackoffSeconds == 0..MaxSeconds

\* GmailClient(service, initial_backoff_seconds=..., max_backoff_seconds=...)
B_Construct(initial_backoff_seconds, max_backoff_seconds) ==
  /\ client.outcome # "running"
  /\ client' = IdleClient
  /\ last_call' = [NoCall EXCEPT !.op = "GmailClient",
                                 !.args = [initial_backoff |-> initial_backoff_seconds,
                                           max_backoff |-> max_backoff_seconds],
                                 !.ret = <<>>]
  /\ UNCHANGED <<messages, clock, pipeVars>>

\* list_labels enters _execute_with_retry: `backoff = self._initial_backoff`
B_StartRequest ==
  /\ last_call.op = "GmailClient"
  /\ client.outcome # "running"
  /\ client' = [StartCall("list_labels", <<>>) EXCEPT
                  !.backoff = last_call.args.initial_backoff]
  /\ last_call' = [last_call EXCEPT !.ret = <<>>]
  /\ UNCHANGED <<messages, clock, pipeVars>>

\* one iteration of the loop; jitter is what random.uniform(0, sleep_time)
\* returns when the iteration sleeps
B_ExecuteAttempt(exc, jitter) ==
  /\ last_call.op = "GmailClient"
  /\ client.outcome = "running"
  /\ LET c == execute_attempt_with(client, exc, MaxRetries, last_call.args.max_backoff)
         slept == Len(c.sleeps) > Len(client.sleeps)
     IN /\ jitter \in 0..(IF slept THEN c.sleeps[Len(c.sleeps)] ELSE 0)
        /\ client' = c
        /\ last_call' = [last_call EXCEPT !.ret = IF slept THEN Append(@, jitter) ELSE @]
  /\ UNCHANGED <<messages, clock, pipeVars>>

BackoffNext ==
  \/ \E i \in BackoffSeconds, m \in BackoffSeconds : B_Construct(i, m)
  \/ B_StartRequest
  \/ \E exc \in Exceptions \cup {NoExc}, jitter \in BackoffSeconds :
       B_ExecuteAttempt(exc, jitter)

SpecBackoff == ClientInit /\ [][BackoffNext]_vars

(***************************************************************************)
(* Spec: the EmailIngestor operations.  One step is the start of a call,   *)
(* one page of discovery, one batch request, or one message of a batch.    *)
(***************************************************************************)
Limits == {NoLimit} \cup 0..MaxLimit
Offsets == 0..MaxOffset
BatchSizes == 0..MaxBatchSize     \* 0 is None

\* what the mailbox lists under the label: the stubs 1..n, in this order
Mailboxes == {[i \in 1..n |-> i] : n \in 0..MaxMailbox}

\* what one messages.list response can be when `remaining` is still to be
\* listed: the next k stubs, with a nextPageToken whenever stubs remain after
\* them and possibly also when none does (the next response is then empty)
PageEnvs(remaining) ==
  IF remaining = <<>> THEN {[k |-> 0, token |-> FALSE]}
  ELSE {[k |-> k, token |-> t] : k \in 1..Len(remaining), t \in BOOLEAN}
         \ {[k |-> k, token |-> FALSE] : k \in 1..(Len(remaining) - 1)}

\* the thread a listed message belongs to
ThreadOf(message_id) == 1

\* what request.execute does in the successive attempts of one request: k
\* rate-limit signals, then a response or a failure
RequestScripts ==
  {[i \in 1..(k + 1) |-> IF i <= k THEN Http429 ELSE last] :
     k \in 0..MaxRetries, last \in {NoExc, NetworkTimeout}}
    \cup {[i \in 1..(MaxRetries + 1) |-> Http429]}

\* what the API does to the successive batches of n requests: k rate-limited
\* attempts, then any outcome
BatchScripts(n) ==
  {[i \in 1..(k + 1) |-> IF i <= k THEN [transport |-> Http429, subs |-> <<>>] ELSE last] :
     k \in 0..MaxRetries, last \in BatchEnvs(n)}

\* what parsing and storing one raw message comes to: an exception of the
\* parser or of the raw store, or the body part the message has
FetchOutcomes ==
  {[error |-> "ParseError", plain_text |-> FALSE, html |-> FALSE],
   [error |-> "OSError", plain_text |-> FALSE, html |-> FALSE],
   [error |-> "", plain_text |-> TRUE, html |-> FALSE],
   [error |-> "", plain_text |-> FALSE, html |-> TRUE]}

\* what converting one message meets: the result of trafilatura.extract on an
\* HTML body (text, the empty string, or None / an exception) and whether the
\* document can be written
ConvertEnvs == {[extract |-> e, write_ok |-> w] : e \in {"text", "empty", "none"},
                                                  w \in BOOLEAN}

\* a read that takes every recorded path for an existing file
raw_part_recorded(path, fs) == path # ""

\* `if raw_text_path: p = Path(raw_text_path); if p.exists(): ... p.read_text()`:
\* TRUE when the part is read, FALSE when it stays None
raw_part(path, fs) == path # "" /\ path \in fs

\* MarkdownConverter._convert_body: "none" is None
convert_body(plain_text, html, extract) ==
  LET result == IF html THEN extract ELSE "none"
  IN IF result = "none" /\ plain_text THEN "plain" ELSE result

\* tracker.start_run
start_run(runs, label_id, now) ==
  Append(runs, [label_id |-> label_id, started_at |-> now, completed_at |-> 0,
                ids_discovered |-> 0, messages_fetched |-> 0,
                messages_converted |-> 0, messages_failed |-> 0])

\* a complete_run that stamps the record but writes no counters
complete_run_without_counters(runs, run_id, p, now) ==
  [runs EXCEPT ![run_id] = [@ EXCEPT !.completed_at = now]]

\* tracker.complete_run
complete_run(runs, run_id, p, now) ==
  [runs EXCEPT ![run_id] =
     [@ EXCEPT !.completed_at = now, !.ids_discovered = p.ids_discovered,
               !.messages_fetched = p.messages_fetched,
               !.messages_converted = p.messages_converted,
               !.messages_failed = p.messages_failed]]

Init ==
  /\ messages = <<>>
  /\ clock = 0
  /\ last_call = NoCall
  /\ client = IdleClient
  /\ PipeIdle

\* the values a step has computed so far for the variables it may change
Now == [messages |-> messages, clock |-> clock, files |-> files,
        progress |-> progress, disc |-> disc, err |-> op.adapter_error,
        work |-> work]

\* the top-level call ends: a stage called on its own returns or raises.  The
\* locals stay as they were until the caller has taken the result (Return).
Finish(outcome, value, n) ==
  /\ pc' = "done"
  /\ op' = [op EXCEPT !.adapter_error = n.err]
  /\ disc' = n.disc
  /\ ret' = [outcome |-> outcome, value |-> value]
  /\ messages' = n.messages
  /\ clock' = n.clock
  /\ files' = n.files
  /\ progress' = n.progress
  /\ work' = n.work
  /\ UNCHANGED fetch_runs

\* run() ends: the stage marker is set, the finally clause completes the audit
\* record, and run() returns the progress or re-raises
RunEnd(outcome, marker, n) ==
  LET p == notify([n.progress EXCEPT !.current_stage = marker])
  IN /\ pc' = "done"
     /\ op' = [op EXCEPT !.adapter_error = n.err]
     /\ disc' = n.disc
     /\ ret' = [outcome |-> outcome, value |-> 0]
     /\ messages' = n.messages
     /\ clock' = n.clock + 1
     /\ files' = n.files
     /\ progress' = p
     /\ fetch_runs' = complete_run(fetch_runs, op.run_id, p, n.clock + 1)
     /\ UNCHANGED work

\* a stage raises: nothing in the stages catches it, run() does
StageRaise(error, n) ==
  IF op.name = "run"
  THEN RunEnd(error, "error", n)
  ELSE Finish(error, 0, n)

\* a run() that marks the run complete as soon as the fetch stage is back
StageReturn_without_convert(stage, value, n) ==
  IF op.name # "run" THEN Finish("returned", value, n)
  ELSE IF stage \in {"fetch", "convert"} THEN RunEnd("returned", "complete", n)
  ELSE /\ pc' = "fetch"
       /\ progress' = notify([n.progress EXCEPT !.current_stage = pc'])
       /\ op' = [op EXCEPT !.adapter_error = n.err, !.limit = NoLimit, !.offset = 0,
                            !.started_at = n.clock]
       /\ disc' = NoDisc
       /\ work' = NoWork
       /\ ret' = NoRet
       /\ messages' = n.messages
       /\ clock' = n.clock
       /\ files' = n.files
       /\ UNCHANGED fetch_runs

\* a stage returns value: run() goes on to its next stage, which it calls with
\* batch_size only, so with limit=None and offset=0
StageReturn(stage, value, n) ==
  IF op.name # "run" THEN Finish("returned", value, n)
  ELSE IF stage = "convert" THEN RunEnd("returned", "complete", n)
  ELSE /\ pc' = IF stage = "discovery" THEN "fetch" ELSE "convert"
       /\ progress' = notify([n.progress EXCEPT !.current_stage = pc'])
       /\ op' = [op EXCEPT !.adapter_error = n.err, !.limit = NoLimit, !.offset = 0,
                            !.started_at = n.clock]
       /\ disc' = NoDisc
       /\ work' = NoWork
       /\ ret' = NoRet
       /\ messages' = n.messages
       /\ clock' = n.clock
       /\ files' = n.files
       /\ UNCHANGED fetch_runs

NewDisc(mailbox) ==
  [NoDisc EXCEPT !.remaining = mailbox, !.listing = mailbox,
                 !.available = Len(mailbox)]

\* run(): start_run, a fresh FetchProgress, then run_discovery is entered
Run(label_id, limit, offset, batch_size, mailbox) ==
  /\ pc = "idle"
  /\ clock < MaxRunStart
  /\ pc' = "discovery"
  /\ op' = [NoOp EXCEPT !.name = "run",
                        !.label_id = IF label_id = "" THEN SettingsLabel ELSE label_id,
                        !.limit = limit, !.offset = offset, !.batch_size = batch_size,
                        !.run_id = Len(fetch_runs) + 1, !.started_at = clock + 1]
  /\ clock' = clock + 1
  /\ fetch_runs' = start_run(fetch_runs, op'.label_id, clock')
  /\ progress' = notify([FetchProgress0 EXCEPT !.current_stage = "discovery"])
  /\ disc' = NewDisc(mailbox)
  /\ work' = NoWork
  /\ ret' = NoRet
  /\ proc' = ensure_initialized(proc)
  /\ UNCHANGED <<messages, files, last_call, client>>

RunDiscovery(label_id, limit, offset, mailbox) ==
  /\ pc = "idle"
  /\ clock < MaxWrites
  /\ pc' = "discovery"
  /\ op' = [NoOp EXCEPT !.name = "run_discovery",
                        !.label_id = IF label_id = "" THEN SettingsLabel ELSE label_id,
                        !.limit = limit, !.offset = offset, !.started_at = clock]
  /\ progress' = notify([progress EXCEPT !.current_stage = "discovery"])
  /\ disc' = NewDisc(mailbox)
  /\ work' = NoWork
  /\ ret' = NoRet
  /\ proc' = ensure_initialized(proc)
  /\ UNCHANGED <<messages, clock, files, fetch_runs, last_call, client>>

\* one round of `for page in client.discover_message_ids(...)`: the generator
\* requests the next page (after a token) and the loop body handles it
DiscoverPage(script, env) ==
  /\ pc = "discovery"
  /\ env \in PageEnvs(disc.remaining)
  /\ UNCHANGED <<last_call, client, proc>>
  /\ LET r == execute_with_retry("list_messages", script)
         n0 == [Now EXCEPT !.disc.requests = @ + 1]
     IN /\ r.outcome # "running"
        /\ IF r.outcome # "returned"
           THEN StageRaise(r.outcome, [n0 EXCEPT !.err = r.outcome])
           ELSE IF env.k = 0
           THEN StageReturn("discovery", disc.total_new, n0)
           ELSE LET d == collect_page([stubs_to_insert |-> <<>>,
                                       total_seen |-> disc.total_seen,
                                       total_collected |-> disc.total_collected],
                                      SubSeq(disc.remaining, 1, env.k),
                                      op.limit, op.offset)
                    ids == d.stubs_to_insert
                    stubs == [i \in 1..Len(ids) |-> <<ids[i], ThreadOf(ids[i])>>]
                    insert == ids # <<>>
                    inserted == IF insert
                                THEN bulk_insert_rowcount(messages, stubs, op.label_id,
                                                          clock + 1)
                                ELSE 0
                    n1 == [n0 EXCEPT
                             !.messages = IF insert
                                          THEN bulk_insert_pending(messages, stubs,
                                                                   op.label_id, clock + 1)
                                          ELSE @,
                             !.clock = IF insert THEN @ + 1 ELSE @,
                             !.progress = IF insert
                                          THEN notify(counted(@, "ids_discovered",
                                                              Len(ids)))
                                          ELSE @,
                             !.disc.remaining = SubSeq(@, env.k + 1, Len(@)),
                             !.disc.total_seen = d.total_seen,
                             !.disc.total_collected = d.total_collected,
                             !.disc.total_new = @ + inserted,
                             !.disc.collected = @ \o ids]
                IN IF limit_reached(op.limit, d.total_collected) \/ ~env.token
                   THEN StageReturn("discovery", n1.disc.total_new, n1)
                   ELSE /\ disc' = n1.disc
                        /\ messages' = n1.messages
                        /\ clock' = n1.clock
                        /\ progress' = n1.progress
                        /\ UNCHANGED <<pc, op, work, ret, files, fetch_runs>>

RunFetchPending(limit, offset, batch_size) ==
  /\ pc = "idle"
  /\ clock < MaxWrites
  /\ pc' = "fetch"
  /\ op' = [NoOp EXCEPT !.name = "run_fetch_pending", !.limit = limit,
                        !.offset = offset, !.batch_size = batch_size,
                        !.started_at = clock]
  /\ progress' = notify([progress EXCEPT !.current_stage = "fetch"])
  /\ work' = NoWork
  /\ disc' = NoDisc
  /\ ret' = NoRet
  /\ proc' = ensure_initialized(proc)
  /\ UNCHANGED <<messages, clock, files, fetch_runs, last_call, client>>

\* the head of the while loop of run_fetch_pending down to the batch request
\* scripts[n] is what the API may do to a batch of n requests
FetchBatchIn(scripts) ==
  /\ pc = "fetch"
  /\ UNCHANGED <<last_call, client, proc>>
  /\ LET ql == query_limit(op.limit, work.total, op.batch_size)
         pending_ids == IF ql = 0 THEN <<>>
                        ELSE get_pending_ids(messages, ql, op.offset)
     IN IF pending_ids = <<>>
        THEN StageReturn("fetch", work.total, Now)
        ELSE \E script \in scripts[Len(pending_ids)] :
               \E r \in {fetch_messages_batch(pending_ids, script)} :
                  /\ r.outcome # "running"
                  /\ IF r.outcome # "returned"
                     THEN StageReturn("fetch", work.total,
                            [Now EXCEPT !.err = r.outcome,
                                        !.work.requests = Append(@, pending_ids)])
                     ELSE /\ pc' = "fetch_messages"
                          /\ work' = [work EXCEPT
                                        !.ids = pending_ids,
                                        !.requests = Append(@, pending_ids),
                                        !.queue = r.results,
                                        !.returned = {r.results[i].id :
                                                        i \in 1..Len(r.results)},
                                        !.fetched_ids = {}]
                          /\ UNCHANGED <<messages, clock, files, fetch_runs, progress,
                                         op, disc, ret>>

\* the lengths a batch can have
BatchLens == 1..Max(SettingsBatchSize, MaxBatchSize)

FetchBatch == FetchBatchIn([n \in BatchLens |-> BatchScripts(n)])

\* the body of `for raw_msg in raw_messages` for one message
FetchMessage(o) ==
  /\ pc = "fetch_messages"
  /\ work.queue # <<>>
  /\ LET msg_id == Head(work.queue).id
     IN IF o.error = ""
        THEN /\ files' = files \cup {RawTextPath(msg_id) : x \in {o.plain_text} \ {FALSE}}
                               \cup {RawHtmlPath(msg_id) : x \in {o.html} \ {FALSE}}
             /\ messages' = update_status(messages, msg_id, "fetched",
                              [NoFields EXCEPT
                                 !.subject = "Subject", !.sender = "a@x",
                                 !.date = "2024-01-15T10:30:00",
                                 !.raw_text_path = IF o.plain_text
                                                   THEN RawTextPath(msg_id) ELSE "",
                                 !.raw_html_path = IF o.html
                                                   THEN RawHtmlPath(msg_id) ELSE ""],
                              clock + 1)
             /\ work' = [work EXCEPT !.queue = Tail(@), !.fetched_ids = @ \cup {msg_id},
                                     !.total = @ + 1]
             /\ progress' = notify(counted(progress, "messages_fetched", 1))
        ELSE /\ messages' = update_status(messages, msg_id, "failed",
                              [NoFields EXCEPT !.error_message = o.error], clock + 1)
             /\ work' = [work EXCEPT !.queue = Tail(@)]
             /\ progress' = notify(counted(progress, "messages_failed", 1))
             /\ UNCHANGED files
  /\ clock' = clock + 1
  /\ UNCHANGED <<pc, op, disc, ret, fetch_runs, last_call, client, proc>>

\* `for msg_id in pending_ids: if msg_id not in fetched_ids: ...`, then back to
\* the head of the while loop
FetchMissing ==
  /\ pc = "fetch_messages"
  /\ work.queue = <<>>
  /\ LET w == mark_missing([messages |-> messages, clock |-> clock, failed |-> 0],
                           work.ids, work.fetched_ids)
     IN /\ messages' = w.messages
        /\ clock' = w.clock
        /\ progress' = counted_failed(progress, w.failed)
  /\ pc' = "fetch"
  /\ UNCHANGED <<work, op, disc, ret, files, fetch_runs, last_call, client, proc>>

RunConvertPending(limit, offset, batch_size) ==
  /\ pc = "idle"
  /\ clock < MaxWrites
  /\ pc' = "convert"
  /\ op' = [NoOp EXCEPT !.name = "run_convert_pending", !.limit = limit,
                        !.offset = offset, !.batch_size = batch_size,
                        !.started_at = clock]
  /\ progress' = notify([progress EXCEPT !.current_stage = "convert"])
  /\ work' = NoWork
  /\ disc' = NoDisc
  /\ ret' = NoRet
  /\ proc' = ensure_initialized(proc)
  /\ UNCHANGED <<messages, clock, files, fetch_runs, last_call, client>>

\* the head of the while loop of run_convert_pending
ConvertBatch ==
  /\ pc = "convert"
  /\ UNCHANGED <<last_call, client, proc>>
  /\ LET ql == query_limit(op.limit, work.total, op.batch_size)
         fetched_ids == IF ql = 0 THEN <<>>
                        ELSE get_fetched_ids(messages, ql, op.offset)
     IN IF fetched_ids = <<>>
        THEN StageReturn("convert", work.total, Now)
        ELSE /\ pc' = "convert_messages"
             /\ work' = [work EXCEPT !.ids = fetched_ids, !.queue = fetched_ids]
             /\ UNCHANGED <<messages, clock, files, fetch_runs, progress, op, disc, ret>>

\* the body of `for msg_id in fetched_ids` for one message; after the last one
\* the while loop is at its head again
ConvertMessage(env) ==
  /\ pc = "convert_messages"
  /\ work.queue # <<>>
  /\ LET msg_id == Head(work.queue)
         msg_record == get_message(messages, msg_id)
         plain_text == raw_part(msg_record.raw_text_path, files)
         html == raw_part(msg_record.raw_html_path, files)
         body == convert_body(plain_text, html, env.extract)
         error == IF body = "none" THEN "No convertible content"
                  ELSE IF ~env.write_ok THEN "OSError" ELSE ""
     IN IF error = ""
        THEN /\ files' = files \cup {MarkdownPath(msg_id)}
             /\ messages' = update_status(messages, msg_id, "converted",
                              [NoFields EXCEPT !.markdown_path = MarkdownPath(msg_id)],
                              clock + 1)
             /\ work' = [work EXCEPT !.queue = Tail(@), !.total = @ + 1]
             /\ progress' = notify(counted(progress, "messages_converted", 1))
        ELSE /\ messages' = update_status(messages, msg_id, "failed",
                              [NoFields EXCEPT !.error_message = error], clock + 1)
             /\ work' = [work EXCEPT !.queue = Tail(@)]
             /\ progress' = notify(counted(progress, "messages_failed", 1))
             /\ UNCHANGED files
  /\ clock' = clock + 1
  /\ pc' = IF Tail(work.queue) = <<>> THEN "convert" ELSE "convert_messages"
  /\ UNCHANGED <<op, disc, ret, fetch_runs, last_call, client, proc>>

\* EmailIngestor.retry_failed
RetryFailed ==
  /\ pc = "idle"
  /\ clock < MaxWrites
  /\ messages' = retry_failed(messages, clock + 1)
  /\ clock' = clock + 1
  /\ ret' = [outcome |-> "returned", value |-> retry_failed_rowcount(messages)]
  /\ pc' = "done"
  /\ op' = [NoOp EXCEPT !.name = "retry_failed", !.started_at = clock]
  /\ proc' = ensure_initialized(proc)
  /\ UNCHANGED <<disc, work, progress, files, fetch_runs, last_call, client>>

\* the caller has the result of the call; the ingestor is idle again
Return ==
  /\ pc = "done"
  /\ pc' = "idle"
  /\ op' = NoOp
  /\ disc' = NoDisc
  /\ work' = NoWork
  /\ ret' = NoRet
  /\ UNCHANGED <<messages, clock, progress, files, fetch_runs, last_call, client, proc>>

\* the operations in any order; the offset of discovery is left to
\* SpecDiscovery
Next ==
  \/ \E limit \in Limits, batch_size \in BatchSizes, mailbox \in Mailboxes :
       Run("", limit, 0, batch_size, mailbox)
  \/ \E limit \in Limits, mailbox \in Mailboxes :
       RunDiscovery("", limit, 0, mailbox)
  \/ \E script \in RequestScripts, env \in PageEnvs(disc.remaining) :
       DiscoverPage(script, env)
  \/ \E limit \in Limits, offset \in Offsets, batch_size \in BatchSizes :
       RunFetchPending(limit, offset, batch_size)
  \/ FetchBatch
  \/ \E o \in FetchOutcomes : FetchMessage(o)
  \/ FetchMissing
  \/ \E limit \in Limits, offset \in Offsets, batch_size \in BatchSizes :
       RunConvertPending(limit, offset, batch_size)
  \/ ConvertBatch
  \/ \E env \in ConvertEnvs : ConvertMessage(env)
  \/ RetryFailed
  \/ Return

Spec == Init /\ [][Next]_vars

(***************************************************************************)
(* SpecDiscovery: run_discovery on its own, over larger mailboxes.         *)
(***************************************************************************)
\* the listings of a label: the stubs 1, 2, ... in this order, a stub possibly
\* listed more than once
DiscMailboxes ==
  {s \in UNION {[1..n -> 1..DiscMailbox] : n \in 0..DiscMailbox} :
     /\ s # <<>> => s[1] = 1
     /\ \A i \in 1..(Len(s) - 1) : s[i + 1] \in {s[i], s[i] + 1}}
DiscLimits == {NoLimit} \cup 0..(DiscMailbox - 1)
DiscOffsets == 0..(DiscMailbox - 1)

DiscoveryNext ==
  \/ \E limit \in DiscLimits, offset \in DiscOffsets, mailbox \in DiscMailboxes :
       RunDiscovery("", limit, offset, mailbox)
  \/ \E script \in RequestScripts, env \in PageEnvs(disc.remaining) :
       DiscoverPage(script, env)
  \/ Return

SpecDiscovery == Init /\ [][DiscoveryNext]_vars

(***************************************************************************)
(* SpecRediscovery: run_discovery called again and again by a caller that  *)
(* keeps what the call before came to.                                     *)
(***************************************************************************)
\* the caller has the result of run_discovery, or the exception it raised:
\* last_call holds the listing the call went over and how it ended
ReturnLogged ==
  /\ pc = "done"
  /\ pc' = "idle"
  /\ op' = NoOp
  /\ disc' = NoDisc
  /\ work' = NoWork
  /\ ret' = NoRet
  /\ last_call' = [NoCall EXCEPT
                     !.op = op.name, !.ids = disc.listing,
                     !.raised = IF ret.outcome = "returned" THEN "" ELSE ret.outcome]
  /\ UNCHANGED <<messages, clock, progress, files, fetch_runs, client, proc>>

\* what request.execute does in the attempts of one request: a response at
\* once or after a rate-limit signal, another error, or rate-limit signals
\* until the retries are used up
RediscoveryScripts ==
  {<<NoExc>>, <<Http429, NoExc>>, <<NetworkTimeout>>,
   [i \in 1..(MaxRetries + 1) |-> Http429]}

RediscoveryNext ==
  \/ \E limit \in {NoLimit, 1}, mailbox \in DiscMailboxes :
       RunDiscovery("", limit, 0, mailbox)
  \/ \E script \in RediscoveryScripts, env \in PageEnvs(disc.remaining) :
       DiscoverPage(script, env)
  \/ ReturnLogged

SpecRediscovery == Init /\ [][RediscoveryNext]_vars

(***************************************************************************)
(* SpecCrash: the stages called on their own by processes of which one    *)
(* dies at some point of the fetch or convert stage.  Every tracker method *)
(* commits before it returns, so the tables and the files hold whatever    *)
(* was written before the process died; the next process starts from them  *)
(* with a fresh ingestor.                                                  *)
(***************************************************************************)
\* the process is gone: the next one constructs its own EmailIngestor
ProcessDies ==
  /\ ~proc.crashed
  /\ proc' = [NoProc EXCEPT !.crashed = TRUE]
  /\ pc' = "idle"
  /\ op' = NoOp
  /\ disc' = NoDisc
  /\ work' = NoWork
  /\ ret' = NoRet
  /\ progress' = FetchProgress0
  /\ UNCHANGED <<fetch_runs, last_call, client>>

\* the process dies between two tracker calls of a stage
Crash ==
  /\ pc \in {"fetch", "fetch_messages", "convert", "convert_messages"}
  /\ ProcessDies
  /\ UNCHANGED <<messages, clock, files>>

\* the process dies while it handles one message of the fetch stage: some of
\* the raw files are written, update_status has not been called
CrashInFetch(o, written) ==
  /\ pc = "fetch_messages"
  /\ work.queue # <<>>
  /\ o.error = ""
  /\ written \subseteq {RawTextPath(Head(work.queue).id) : x \in {o.plain_text} \ {FALSE}}
                  \cup {RawHtmlPath(Head(work.queue).id) : x \in {o.html} \ {FALSE}}
  /\ written # {}
  /\ files' = files \cup written
  /\ ProcessDies
  /\ UNCHANGED <<messages, clock>>

\* the process dies inside the sweep, after its first k IDs
CrashInSweep(k) ==
  /\ pc = "fetch_messages"
  /\ work.queue = <<>>
  /\ k \in 1..(Len(work.ids) - 1)
  /\ LET w == mark_missing([messages |-> messages, clock |-> clock, failed |-> 0],
                           SubSeq(work.ids, 1, k), work.fetched_ids)
     IN /\ messages' = w.messages
        /\ clock' = w.clock
  /\ ProcessDies
  /\ UNCHANGED files

\* the process dies while it handles one message of the convert stage: the
\* markdown file is written, update_status has not been called
CrashInConvert ==
  /\ pc = "convert_messages"
  /\ work.queue # <<>>
  /\ files' = files \cup {MarkdownPath(Head(work.queue))}
  /\ ProcessDies
  /\ UNCHANGED <<messages, clock>>

\* the raw files of the messages a mailbox lists
RawPaths ==
  {RawTextPath(i) : i \in 1..MaxMailbox} \cup {RawHtmlPath(i) : i \in 1..MaxMailbox}

CrashNext ==
  \/ \E mailbox \in Mailboxes : RunDiscovery("", NoLimit, 0, mailbox)
  \/ \E script \in RequestScripts, env \in PageEnvs(disc.remaining) :
       DiscoverPage(script, env)
  \/ \E batch_size \in BatchSizes : RunFetchPending(NoLimit, 0, batch_size)
  \/ FetchBatch
  \/ \E o \in FetchOutcomes : FetchMessage(o)
  \/ FetchMissing
  \/ \E batch_size \in BatchSizes : RunConvertPending(NoLimit, 0, batch_size)
  \/ ConvertBatch
  \/ \E env \in ConvertEnvs : ConvertMessage(env)
  \/ Return
  \/ Crash
  \/ \E o \in FetchOutcomes, written \in SUBSET RawPaths : CrashInFetch(o, written)
  \/ \E k \in 1..SettingsBatchSize : CrashInSweep(k)
  \/ CrashInConvert

SpecCrash == Init /\ [][CrashNext]_vars

(***************************************************************************)
(* SpecMissing: the stages called on their own over messages with a plain  *)
(* text part, an HTML part, both or neither, while raw files are removed   *)
(* from the raw directory behind the back of the ingestor.                 *)
(***************************************************************************)
\* what parsing one raw message comes to here: the parts of its body
BodyOutcomes == [error : {""}, plain_text : BOOLEAN, html : BOOLEAN]

\* somebody deletes a raw file
RemoveRawFile(path) ==
  /\ pc \in {"idle", "convert_messages"}
  /\ path \in files
  /\ path \in RawPaths
  /\ files' = files \ {path}
  /\ UNCHANGED <<messages, clock, last_call, client, fetch_runs, progress, pc, op, disc,
                 work, ret, proc>>

MissingNext ==
  \/ \E mailbox \in Mailboxes : RunDiscovery("", NoLimit, 0, mailbox)
  \/ \E script \in RequestScripts, env \in PageEnvs(disc.remaining) :
       DiscoverPage(script, env)
  \/ \E batch_size \in BatchSizes : RunFetchPending(NoLimit, 0, batch_size)
  \/ FetchBatch
  \/ \E o \in BodyOutcomes : FetchMessage(o)
  \/ FetchMissing
  \/ \E path \in RawPaths : RemoveRawFile(path)
  \/ \E batch_size \in BatchSizes : RunConvertPending(NoLimit, 0, batch_size)
  \/ ConvertBatch
  \/ \E env \in ConvertEnvs : ConvertMessage(env)
  \/ Return

SpecMissing == Init /\ [][MissingNext]_vars

(***************************************************************************)
(* SpecStages: one pass of the pipeline.  The backlog is discovered once,  *)
(* then run_fetch_pending is called on the pending backlog and             *)
(* run_convert_pending on what was fetched, with every limit, offset and   *)
(* batch size.  The ingestor is one sequential thread: once a stage is     *)
(* entered, the interpreter executes the next statement of its loop, and   *)
(* every call the loop makes returns or raises (the retry loop of the      *)
(* client is bounded by max_retries), hence the weak fairness on the steps *)
(* of the stages.                                                          *)
(***************************************************************************)
\* what the API does to a batch of n requests here, in one attempt: the
\* request fails in transport, or any subset of the requests is answered
TransportFailure ==
  [n \in BatchLens |-> {<<[transport |-> NetworkTimeout, subs |-> <<>>]>>}]

Answered ==
  [n \in BatchLens |->
     {<<[transport |-> NoExc, subs |-> subs]>> :
        subs \in [1..n -> {[response |-> r, exception |-> NoExc] : r \in BOOLEAN}]}]

\* parsing and storing a raw message fails, or stores its plain-text part
StageFetchOutcomes ==
  {[error |-> "ParseError", plain_text |-> FALSE, html |-> FALSE],
   [error |-> "", plain_text |-> TRUE, html |-> FALSE]}

\* the document of a plain-text message is written, or the write fails
StageConvertEnvs == {[extract |-> "text", write_ok |-> w] : w \in BOOLEAN}

StageBatchSizes == BatchSizes

\* no record has left the pending status / no record has been converted
all_pending == \A i \in 1..Len(messages) : messages[i].status = "pending"

none_converted == \A i \in 1..Len(messages) : messages[i].status # "converted"

StageStep ==
  \/ FetchBatchIn(TransportFailure)
  \/ FetchBatchIn(Answered)
  \/ \E o \in StageFetchOutcomes : FetchMessage(o)
  \/ FetchMissing
  \/ ConvertBatch
  \/ \E env \in StageConvertEnvs : ConvertMessage(env)

StagesNext ==
  \/ \E mailbox \in Mailboxes :
       messages = <<>> /\ RunDiscovery("", NoLimit, 0, mailbox)
  \/ \E env \in PageEnvs(disc.remaining) : DiscoverPage(<<NoExc>>, env)
  \/ \E limit \in Limits, offset \in Offsets, batch_size \in StageBatchSizes :
       all_pending /\ RunFetchPending(limit, offset, batch_size)
  \/ FetchBatchIn(TransportFailure)
  \/ FetchBatchIn(Answered)
  \/ \E o \in StageFetchOutcomes : FetchMessage(o)
  \/ FetchMissing
  \/ \E limit \in Limits, offset \in Offsets, batch_size \in StageBatchSizes :
       none_converted /\ RunConvertPending(limit, offset, batch_size)
  \/ ConvertBatch
  \/ \E env \in StageConvertEnvs : ConvertMessage(env)
  \/ Return

SpecStages == Init /\ [][StagesNext]_vars /\ WF_vars(StageStep)

(***************************************************************************)
(* SpecCli: main() of scripts/cli.py.  A process runs one command on an    *)
(* ingestor of its own; the operator may interrupt it at any point; the    *)
(* except and finally clauses of main() end it.                            *)
(***************************************************************************)
Commands ==
  {"list-labels", "fetch", "status", "retry", "discover", "fetch-pending",
   "convert-pending"}

\* the commands that take --limit, --offset and --batch-size
PaginationCommands == {"fetch", "discover", "fetch-pending", "convert-pending"}

ExitInterrupted == 130    \* sys.exit(130)
ExitError == 1            \* sys.exit(1)

\* one handler for whatever is raised
exit_status_generic(signal) == IF signal = "none" THEN 0 ELSE ExitError

\* `except KeyboardInterrupt` before `except Exception`; 0 when nothing is raised
exit_status(signal) ==
  IF signal = "none" THEN 0
  ELSE IF signal = "KeyboardInterrupt" THEN ExitInterrupted
  ELSE ExitError

\* a close() that leaves the connection as it is
close_skipped(conn) == conn

\* EmailIngestor.close: `if self._tracker: self._tracker.close()`
close(conn) == IF conn = "open" THEN "closed" ELSE conn

\* main() up to the try block: the arguments are parsed and validated (a
\* negative --limit or --offset or a non-positive --batch-size exits with 1
\* before there is an ingestor), then the ingestor is constructed
Cli_Start(command, valid) ==
  /\ proc.phase \in {"library", "exited"}
  /\ pc = "idle"
  /\ valid \/ command \in PaginationCommands
  /\ proc' = IF valid
             THEN [NoProc EXCEPT !.phase = "running", !.command = command,
                                 !.crashed = proc.crashed]
             ELSE [NoProc EXCEPT !.phase = "exited", !.command = command,
                                 !.signal = "SystemExit", !.exit_code = ExitError,
                                 !.crashed = proc.crashed]
  /\ progress' = FetchProgress0
  /\ op' = NoOp
  /\ disc' = NoDisc
  /\ work' = NoWork
  /\ ret' = NoRet
  /\ UNCHANGED <<messages, clock, files, fetch_runs, pc, last_call, client>>

\* authenticate() or the tracker's connect() raises in _ensure_initialized:
\* the command ends in `except Exception` without a connection
Cli_InitFails ==
  /\ proc.phase = "running"
  /\ pc = "idle"
  /\ proc' = [proc EXCEPT !.phase = "exiting", !.signal = "Exception",
                          !.exit_code = exit_status("Exception")]
  /\ UNCHANGED <<messages, clock, files, fetch_runs, progress, pc, op, disc, work, ret,
                 last_call, client>>

\* EmailIngestor.list_labels
ListLabels(script) ==
  /\ pc = "idle"
  /\ LET r == execute_with_retry("list_labels", script)
     IN /\ r.outcome # "running"
        /\ ret' = [outcome |-> r.outcome, value |-> 0]
  /\ pc' = "done"
  /\ op' = [NoOp EXCEPT !.name = "list_labels", !.started_at = clock]
  /\ proc' = ensure_initialized(proc)
  /\ UNCHANGED <<messages, clock, disc, work, progress, files, fetch_runs, last_call,
                 client>>

\* EmailIngestor.get_status
GetStatus ==
  /\ pc = "idle"
  /\ ret' = [outcome |-> "returned", value |-> count_by_status(messages)]
  /\ pc' = "done"
  /\ op' = [NoOp EXCEPT !.name = "get_status", !.started_at = clock]
  /\ proc' = ensure_initialized(proc)
  /\ UNCHANGED <<messages, clock, disc, work, progress, files, fetch_runs, last_call,
                 client>>

\* the call of the try block has ended: its result is printed, or what it
\* raised reaches `except Exception`
Cli_Handle ==
  /\ proc.phase = "running"
  /\ pc = "done"
  /\ LET signal == IF ret.outcome = "returned" THEN "none" ELSE "Exception"
     IN proc' = [proc EXCEPT !.phase = "exiting", !.signal = signal,
                             !.exit_code = exit_status(signal)]
  /\ UNCHANGED <<messages, clock, files, fetch_runs, progress, pc, op, disc, work, ret,
                 last_call, client>>

\* the operator interrupts the process: KeyboardInterrupt is raised where the
\* command stands.  It is no Exception, so no handler of the stages or of
\* run() takes it; the finally clause of run() completes the audit record on
\* the way, and `except KeyboardInterrupt` of main() is reached
Interrupt ==
  /\ proc.phase = "running"
  /\ proc' = [proc EXCEPT !.phase = "exiting", !.signal = "KeyboardInterrupt",
                          !.exit_code = exit_status("KeyboardInterrupt")]
  /\ IF op.name = "run" /\ pc \notin {"idle", "done"}
     THEN /\ clock' = clock + 1
          /\ fetch_runs' = complete_run(fetch_runs, op.run_id, progress, clock')
     ELSE UNCHANGED <<clock, fetch_runs>>
  /\ pc' = "done"
  /\ ret' = [outcome |-> "KeyboardInterrupt", value |-> 0]
  /\ UNCHANGED <<messages, files, progress, op, disc, work, last_call, client>>

\* the finally clause of main(), then the process exits with its status
Cli_Finally ==
  /\ proc.phase = "exiting"
  /\ proc' = [proc EXCEPT !.phase = "exited", !.conn = close(@)]
  /\ pc' = "idle"
  /\ op' = NoOp
  /\ disc' = NoDisc
  /\ work' = NoWork
  /\ ret' = NoRet
  /\ UNCHANGED <<messages, clock, files, fetch_runs, progress, last_call, client>>

\* the branch of the try block for the command of the process
Called(command) == proc.phase = "running" /\ proc.command = command

CliNext ==
  \/ \E command \in Commands, valid \in BOOLEAN : Cli_Start(command, valid)
  \/ Cli_InitFails
  \/ Called("list-labels") /\ \E script \in RequestScripts : ListLabels(script)
  \/ Called("fetch") /\ \E limit \in Limits, mailbox \in Mailboxes :
                          Run("", limit, 0, 0, mailbox)
  \/ Called("status") /\ GetStatus
  \/ Called("retry") /\ RetryFailed
  \/ Called("discover") /\ \E limit \in Limits, mailbox \in Mailboxes :
                             RunDiscovery("", limit, 0, mailbox)
  \/ Called("fetch-pending") /\ \E limit \in Limits : RunFetchPending(limit, 0, 0)
  \/ Called("convert-pending") /\ \E limit \in Limits : RunConvertPending(limit, 0, 0)
  \/ proc.phase = "running" /\ \E script \in RequestScripts,
                                   env \in PageEnvs(disc.remaining) :
                                  DiscoverPage(script, env)
  \/ proc.phase = "running" /\ FetchBatch
  \/ proc.phase = "running" /\ \E o \in FetchOutcomes : FetchMessage(o)
  \/ proc.phase = "running" /\ FetchMissing
  \/ proc.phase = "running" /\ ConvertBatch
  \/ proc.phase = "running" /\ \E env \in ConvertEnvs : ConvertMessage(env)
  \/ Cli_Handle
  \/ Interrupt
  \/ Cli_Finally

SpecCli == Init /\ [][CliNext]_vars

(***************************************************************************)
(* SpecConverter: MarkdownConverter.convert on its own.  An optional       *)
(* string is <<>> for None and <<s>> for the string s.                     *)
(***************************************************************************)
\* the truth value of an optional string: None and "" are false
truthy(s) == s # <<>> /\ s[1] # ""

\* what trafilatura.extract does with an HTML body: it returns text, the
\* empty string or None, or it raises
Extractions ==
  {[raises |-> FALSE, result |-> <<"Hi there">>], [raises |-> FALSE, result |-> <<"">>],
   [raises |-> FALSE, result |-> <<>>], [raises |-> TRUE, result |-> <<>>]}

PlainTexts == {<<>>, <<"">>, <<"hello">>}
Htmls == {<<>>, <<"">>, <<"<p>Hi there</p>">>}
Subjects == {"Hello"}

\* MarkdownConverter._convert_body
MarkdownConverter_convert_body(body, extract) ==
  LET result == IF truthy(body.html)
                THEN (IF extract.raises THEN <<>> ELSE extract.result)
                ELSE <<>>
  IN IF result = <<>> /\ truthy(body.plain_text) THEN body.plain_text ELSE result

\* MarkdownConverter.convert: the document, whose markdown is the front matter
\* of the header, a newline and the body, or ConversionError
convert(message_id, header, body, extract) ==
  LET markdown_body == MarkdownConverter_convert_body(body, extract)
  IN IF markdown_body = <<>>
     THEN [raised |-> "ConversionError", value |-> <<>>]
     ELSE [raised |-> "",
           value |-> [message_id |-> message_id, header |-> header,
                      markdown_body |-> markdown_body[1]]]

Convert(message_id, header, body, extract) ==
  /\ LET r == convert(message_id, header, body, extract)
     IN last_call' = [NoCall EXCEPT !.op = "convert", !.ids = <<message_id>>,
                                    !.args = [body |-> body, extract |-> extract],
                                    !.ret = r.value, !.raised = r.raised,
                                    !.before = last_call.op]
  /\ UNCHANGED <<messages, clock, client, pipeVars>>

ConverterNext ==
  \E message_id \in MsgIds, subject \in Subjects, plain_text \in PlainTexts,
     html \in Htmls, extract \in Extractions :
    Convert(message_id, [subject |-> subject],
            [plain_text |-> plain_text, html |-> html], extract)

SpecConverter == Init /\ [][ConverterNext]_vars

(***************************************************************************)
(* SpecWriter: MarkdownWriter.write on its own.  A string the code takes   *)
(* apart (a message ID, a subject) is the sequence of its characters; the  *)
(* directory is a set of records [path, text].                             *)
(***************************************************************************)
\* the number of characters of the message ID that go into the file name
ShortIdLen == 8
\* _slugify's max_length
SlugMaxLength == 50

\* message IDs: a common stem and IdTailLen more characters
IdStem == <<"1", "8", "a", "3", "f", "2", "b">>
IdChars == {"0", "1"}
WriterIds == {IdStem \o t : t \in [1..IdTailLen -> IdChars]}

WriterSubjects == {<<>>, <<"H", "i">>, <<"h", "i", "!">>, <<"-", " ">>, <<"C", "a", "f", "é">>}
\* datetime values: the calendar day and the hour
WriterDates == [year : {2024}, month : {1}, day : 15..(14 + MaxDays), hour : {10, 11}]
Markdowns == {"# Hi"}

\* date.strftime("%Y-%m-%d")
strftime_ymd(date) == <<date.year, date.month, date.day>>

\* unicodedata.normalize("NFKD", c).encode("ascii", "ignore"), one character
ascii_fold(c) == IF c = "é" THEN "e" ELSE c
\* str.lower, one character
lower(c) == CASE c = "H" -> "h" [] c = "C" -> "c" [] OTHER -> c
\* the characters that match \w, and those that match [-\s]
is_word(c) == c \in {"h", "i", "c", "a", "f", "e", "0", "1", "_"}
is_sep(c) == c \in {"-", " "}

RECURSIVE MapChars(_, _)
\* lowercase ASCII text without the characters that match [^\w\s-]
MapChars(text, i) ==
  IF i > Len(text) THEN <<>>
  ELSE LET c == lower(ascii_fold(text[i]))
       IN (IF is_word(c) \/ is_sep(c) THEN <<c>> ELSE <<>>) \o MapChars(text, i + 1)

RECURSIVE Hyphenate(_, _)
\* re.sub(r"[-\s]+", "-", text): every run of separators becomes one hyphen
Hyphenate(text, i) ==
  IF i > Len(text) THEN <<>>
  ELSE IF is_sep(text[i])
       THEN (IF i > 1 /\ is_sep(text[i - 1]) THEN <<>> ELSE <<"-">>)
              \o Hyphenate(text, i + 1)
       ELSE <<text[i]>> \o Hyphenate(text, i + 1)

\* str.strip("-") of a text in which hyphens do not repeat
strip_hyphens(text) ==
  LET a == IF text # <<>> /\ text[1] = "-" THEN 2 ELSE 1
      b == IF Len(text) >= a /\ text[Len(text)] = "-" THEN Len(text) - 1 ELSE Len(text)
  IN SubSeq(text, a, b)

\* MarkdownWriter._slugify
slugify(text) ==
  LET slug == strip_hyphens(Hyphenate(MapChars(text, 1), 1))
  IN IF slug # <<>> THEN SubSeq(slug, 1, Min(SlugMaxLength, Len(slug)))
     ELSE <<"u", "n", "t", "i", "t", "l", "e", "d">>

\* a file name that carries the whole message ID
write_path_whole_id(email) ==
  [dir |-> "markdown",
   name |-> <<strftime_ymd(email.header.date), slugify(email.header.subject),
              email.message_id>>]

\* the path MarkdownWriter.write gives a document: {date}_{slug}_{id}.md in
\* the output directory
write_path(email) ==
  [dir |-> "markdown",
   name |-> <<strftime_ymd(email.header.date), slugify(email.header.subject),
              SubSeq(email.message_id, 1, Min(ShortIdLen, Len(email.message_id)))>>]

\* Path.write_text: the file is created or replaced
write_text(dir, path, text) ==
  {f \in dir : f.path # path} \cup {[path |-> path, text |-> text]}

\* MarkdownWriter.write; the directory has room for MaxDocs documents
Write(email) ==
  /\ Cardinality({f.path : f \in files} \cup {write_path(email)}) <= MaxDocs
  /\ files' = write_text(files, write_path(email), email.markdown)
  /\ last_call' = [NoCall EXCEPT !.op = "write", !.ids = <<email.message_id>>,
                                 !.args = email, !.ret = write_path(email),
                                 !.before = last_call.op]
  /\ UNCHANGED <<messages, clock, client, fetch_runs, progress, pc, op, disc, work,
                 ret, proc>>

WriterNext ==
  \E message_id \in WriterIds, subject \in WriterSubjects, date \in WriterDates,
     markdown \in Markdowns :
    Write([message_id |-> message_id, markdown |-> markdown,
           header |-> [subject |-> subject, date |-> date]])

SpecWriter == Init /\ [][WriterNext]_vars

(***************************************************************************)
(* SpecPages: the generator discover_message_ids and a consumer that asks  *)
(* for its pages.  disc is the frame of the generator; last_call.args is   *)
(* what has happened since it was created, an event a record [e, token,    *)
(* page]: the consumer asks ("next"), the generator sleeps, requests a     *)
(* page with a token, receives a response, yields, returns or raises.      *)
(***************************************************************************)
Tokens == {"tA", "tB"}
\* the `messages` of a response: none, one stub, two stubs
PageLists == {<<>>, <<1>>, <<2, 1>>}
\* what messages().list answers through _execute_with_retry: a response with
\* its messages and its nextPageToken ("": none), or an error of the adapter
Responses ==
  [messages : PageLists, nextPageToken : Tokens \cup {""}, raised : {""}]
    \cup [messages : {<<>>}, nextPageToken : {""},
          raised : {"RateLimitError", "GmailIngestorError"}]
\* inter_page_delay_seconds
Delays == {0, 1}

Event(e, token, page) == [e |-> e, token |-> token, page |-> page]

\* a sleep that is taken before the first page as well
inter_page_sleep_always(first_page, delay) ==
  IF delay > 0 THEN <<Event("sleep", "", <<>>)>> ELSE <<>>

\* `if not first_page and self._inter_page_delay > 0: time.sleep(...)`
inter_page_sleep(first_page, delay) ==
  IF ~first_page /\ delay > 0 THEN <<Event("sleep", "", <<>>)>> ELSE <<>>

\* client.discover_message_ids(label, max_results_per_page): the generator is
\* created, nothing of its body has run
G_Call(delay) ==
  /\ disc' = [state |-> "created", page_token |-> "", first_page |-> TRUE,
              response |-> [messages |-> <<>>, nextPageToken |-> "", raised |-> ""],
              delay |-> delay, requests |-> 0]
  /\ last_call' = [NoCall EXCEPT !.op = "discover_message_ids", !.args = <<>>,
                                 !.ret = <<>>]
  /\ UNCHANGED <<messages, clock, client, fetch_runs, files, progress, pc, op, work,
                 ret, proc>>

\* next() of the generator: its body runs from where it stood to the next
\* yield, return or raise; response is what the API answers if it is asked
G_Next(response) ==
  /\ last_call.op = "discover_message_ids"
  /\ disc.state \in {"created", "suspended"}
  /\ disc.requests < MaxPages
  /\ LET asked == Append(last_call.args, Event("next", "", <<>>))
         \* resumed after `yield stubs`: page_token = response.get("nextPageToken")
         page_token == IF disc.state = "suspended" THEN disc.response.nextPageToken
                       ELSE disc.page_token
     IN IF disc.state = "suspended" /\ page_token = ""
        THEN /\ disc' = [disc EXCEPT !.state = "ended", !.page_token = page_token]
             /\ last_call' = [last_call EXCEPT
                                !.args = Append(asked, Event("return", "", <<>>))]
        ELSE LET requested ==
                   asked \o inter_page_sleep(disc.first_page, disc.delay)
                         \o <<Event("request", page_token, <<>>)>>
                 frame == [disc EXCEPT !.page_token = page_token, !.first_page = FALSE,
                                       !.requests = @ + 1, !.response = response]
             IN IF response.raised # ""
                THEN /\ disc' = [frame EXCEPT !.state = "ended"]
                     /\ last_call' = [last_call EXCEPT
                                        !.args = Append(requested,
                                                        Event(response.raised, "", <<>>)),
                                        !.raised = response.raised]
                ELSE LET received ==
                           Append(requested, Event("response", response.nextPageToken,
                                                   response.messages))
                     IN IF response.messages = <<>>
                        THEN /\ disc' = [frame EXCEPT !.state = "ended"]
                             /\ last_call' = [last_call EXCEPT
                                                !.args = Append(received,
                                                                Event("return", "", <<>>))]
                        ELSE /\ disc' = [frame EXCEPT !.state = "suspended"]
                             /\ last_call' = [last_call EXCEPT
                                                !.args = Append(received,
                                                           Event("yield", "",
                                                                 response.messages)),
                                                !.ret = Append(@, response.messages)]
  /\ UNCHANGED <<messages, clock, client, fetch_runs, files, progress, pc, op, work,
                 ret, proc>>

PagesNext ==
  \/ \E delay \in Delays : G_Call(delay)
  \/ \E response \in Responses : G_Next(response)

SpecPages == Init /\ [][PagesNext]_vars

(***************************************************************************)
(* Properties.                                                             *)
(***************************************************************************)
StatusTransitions ==
  {<<"pending", "fetched">>, <<"fetched", "converted">>, <<"pending", "failed">>,
   <<"fetched", "failed">>, <<"failed", "pending">>}

Thm_C2 ==
  [][last_call'.op = "bulk_insert_pending" =>
       /\ \A i \in 1..Len(messages) : messages'[i] = messages[i]
       /\ (\A k \in 1..Len(last_call'.ids) : is_tracked(messages, last_call'.ids[k])) =>
            /\ messages' = messages
            /\ count_by_status(messages') = count_by_status(messages)
            /\ last_call'.ret = 0]_vars

\* a converted message was discovered again, and is still converted
Wit_C2 ==
  /\ last_call.op = "bulk_insert_pending"
  /\ last_call.ids # <<>>
  /\ last_call.ret = 0
  /\ \E i \in 1..Len(messages) :
       /\ messages[i].message_id \in Range(last_call.ids)
       /\ messages[i].status = "converted"
       /\ messages[i].updated_at < clock

\* C3: an adapter error (RateLimitError or another GmailIngestorError) raised
\* during a stage of run() comes out of run(), with the audit record
\* completed, and run() does not end with stage 'complete'.
Cex_C3 ==
  (pc = "done" /\ op.name = "run" /\ op.adapter_error # "none") =>
    /\ ret.outcome = op.adapter_error
    /\ progress.current_stage # "complete"
    /\ fetch_runs[op.run_id].completed_at # 0

\* C4: when run() returns without raising, no record is left pending or
\* fetched.
Cex_C4 ==
  (pc = "done" /\ op.name = "run" /\ ret.outcome = "returned") =>
    \A i \in 1..Len(messages) : messages[i].status \notin {"pending", "fetched"}

\* C5: run_discovery collects the stubs ranked offset+1 .. offset+limit of the
\* listing and no others: min(limit, totalAvailable - offset) of them when
\* totalAvailable > offset, none otherwise, for limit = 0 too.
Cex_C5 ==
  (pc = "done" /\ op.name = "run_discovery" /\ ret.outcome = "returned") =>
    LET last == IF op.limit = NoLimit THEN disc.available
                ELSE Min(disc.available, op.offset + op.limit)
    IN /\ Len(disc.collected) =
            IF disc.available > op.offset
            THEN (IF op.limit = NoLimit THEN disc.available - op.offset
                  ELSE Min(op.limit, disc.available - op.offset))
            ELSE 0
       /\ disc.collected = [i \in 1..(IF last > op.offset THEN last - op.offset ELSE 0)
                              |-> disc.listing[op.offset + i]]

\* the signals the retry policy is about, and what an attempt received
RateLimitSignals == {Http429, TextRateLimit}

RateLimitedAttempt(method, entry) ==
  IF method = "fetch_messages_batch"
  THEN \/ entry.transport \in RateLimitSignals
       \/ /\ entry.transport = NoExc
          /\ \E i \in 1..Len(entry.subs) : entry.subs[i].exception \in RateLimitSignals
  ELSE entry \in RateLimitSignals

FailedAttempt(method, entry) ==
  IF method = "fetch_messages_batch"
  THEN entry.transport \notin RateLimitSignals \cup {NoExc}
  ELSE entry \notin RateLimitSignals \cup {NoExc}

\* the responses of the sub-requests that succeeded, in request order
RECURSIVE OkResponses(_, _)
OkResponses(ids, subs) ==
  IF ids = <<>> THEN <<>>
  ELSE (IF Head(subs).response /\ Head(subs).exception = NoExc
        THEN <<[id |-> Head(ids)]>> ELSE <<>>) \o OkResponses(Tail(ids), Tail(subs))

\* C6: a request or batch is attempted at most MaxRetries + 1 times, and again
\* only after a rate-limit signal; rate-limited on every attempt it is attempted
\* exactly MaxRetries + 1 times with MaxRetries sleeps and then raises
\* RateLimitError, which it raises in no other case; the first attempt that is
\* not rate-limited ends the call with no further sleep, and with the response
\* when that attempt succeeded.
Thm_C6 ==
  client.op # "idle" =>
    LET n == Len(client.trace)
        allRate == \A k \in 1..n : RateLimitedAttempt(client.op, client.trace[k])
    IN /\ client.attempts = n
       /\ n <= MaxRetries + 1
       /\ \A k \in 1..(n - 1) : RateLimitedAttempt(client.op, client.trace[k])
       /\ (n >= 1 /\ allRate) =>
            IF n = MaxRetries + 1
            THEN client.outcome = "RateLimitError" /\ Len(client.sleeps) = MaxRetries
            ELSE client.outcome = "running" /\ Len(client.sleeps) = n
       /\ client.outcome = "RateLimitError" => allRate /\ n = MaxRetries + 1
       /\ (n >= 1 /\ ~RateLimitedAttempt(client.op, client.trace[n])) =>
            /\ client.outcome \in {"returned", "GmailIngestorError"}
            /\ Len(client.sleeps) = n - 1
            /\ ~FailedAttempt(client.op, client.trace[n]) => client.outcome = "returned"

\* list_labels was rate-limited on every attempt and gave up
Wit_C6 ==
  /\ client.op = "list_labels"
  /\ client.outcome = "RateLimitError"
  /\ client.attempts = MaxRetries + 1
  /\ Len(client.sleeps) = MaxRetries

\* C7: an attempt that fails with an error that is no rate-limit signal (a
\* single request, or the transport call of a batch) is the last attempt of the
\* call: no sleep and no attempt follows it and the call raises
\* GmailIngestorError, never RateLimitError; GmailIngestorError is raised in no
\* other case.
Thm_C7 ==
  client.op # "idle" =>
    LET n == Len(client.trace)
    IN /\ \A k \in 1..n :
            FailedAttempt(client.op, client.trace[k]) =>
              /\ k = n
              /\ client.outcome = "GmailIngestorError"
              /\ Len(client.sleeps) = k - 1
       /\ client.outcome = "GmailIngestorError" =>
            n >= 1 /\ FailedAttempt(client.op, client.trace[n])

\* a page request failed with a timeout at the first attempt
Wit_C7 ==
  /\ client.op = "list_messages"
  /\ client.outcome = "GmailIngestorError"
  /\ client.trace = <<NetworkTimeout>>
  /\ client.sleeps = <<>>

NoDuplicates(seq) == \A i, j \in 1..Len(seq) : seq[i] = seq[j] => i = j

\* C8: every attempt of fetch_messages_batch requests all the message IDs; a
\* rate-limited attempt is followed by another one unless the retries are used
\* up; and the list returned is the list of the last attempt's responses alone,
\* each message at most once.
Thm_C8 ==
  client.op = "fetch_messages_batch" =>
    LET n == Len(client.trace)
    IN /\ \A k \in 1..n : client.requests[k] = client.message_ids
       /\ \A k \in 1..n :
            RateLimitedAttempt(client.op, client.trace[k]) =>
              \/ k < n
              \/ client.outcome = "running"
              \/ client.outcome = "RateLimitError" /\ k = MaxRetries + 1
       /\ client.outcome = "returned" =>
            /\ client.results = OkResponses(client.message_ids, client.trace[n].subs)
            /\ NoDuplicates(client.results)

\* a batch whose first attempt got a message and a rate-limit signal returned
\* after a second attempt
Wit_C8 ==
  /\ client.op = "fetch_messages_batch"
  /\ client.outcome = "returned"
  /\ Len(client.trace) = 2
  /\ client.trace[1].transport = NoExc
  /\ \E i \in 1..Len(client.trace[1].subs) : client.trace[1].subs[i].response
  /\ client.results # <<>>

\* C9: an attempt of fetch_messages_batch in which the transport call and no
\* sub-request is rate-limited ends the call: it returns the responses of the
\* sub-requests that succeeded, in request order, without those that failed.
Thm_C9 ==
  (/\ client.op = "fetch_messages_batch"
   /\ client.trace # <<>>
   /\ client.trace[Len(client.trace)].transport = NoExc
   /\ ~RateLimitedAttempt(client.op, client.trace[Len(client.trace)])) =>
    LET env == client.trace[Len(client.trace)]
    IN /\ client.outcome = "returned"
       /\ client.results = OkResponses(client.message_ids, env.subs)
       /\ \A i \in 1..Len(env.subs) :
            env.subs[i].exception # NoExc =>
              [id |-> client.message_ids[i]] \notin Range(client.results)

\* a batch of two returned one message, the other sub-request having failed
Wit_C9 ==
  /\ client.op = "fetch_messages_batch"
  /\ client.outcome = "returned"
  /\ Len(client.trace) = 1
  /\ Len(client.results) = 1
  /\ \E i \in 1..Len(client.trace[1].subs) :
       client.trace[1].subs[i].exception = NetworkTimeout

\* C10: when the sweep after a batch is over, every requested ID the batch did
\* not return is failed with 'Not returned in batch response', and a requested
\* ID that was returned keeps what its own processing left: fetched, or failed
\* with the error of that processing.
Thm_C10 ==
  (pc = "fetch" /\ work.ids # <<>>) =>
    \A k \in 1..Len(work.ids) :
      LET record == get_message(messages, work.ids[k])
      IN /\ work.ids[k] \notin work.returned =>
              /\ record.status = "failed"
              /\ record.error_message = "Not returned in batch response"
         /\ work.ids[k] \in work.fetched_ids => record.status = "fetched"
         /\ work.ids[k] \in work.returned \ work.fetched_ids =>
              /\ record.status = "failed"
              /\ record.error_message \in {"ParseError", "OSError"}

\* of a batch of two, one message was not returned and one failed to parse
Wit_C10 ==
  /\ pc = "fetch"
  /\ \E k \in 1..Len(work.ids) : work.ids[k] \notin work.returned
  /\ \E k \in 1..Len(work.ids) : work.ids[k] \in work.returned \ work.fetched_ids

\* the message the per-message loop of the fetch or convert stage is at
InFlight == IF pc = "fetch_messages" THEN Head(work.queue).id ELSE Head(work.queue)

\* C11: in the per-message loops of the fetch and convert stages, handling one
\* message, whether it succeeds or fails (parse, raw store, conversion or
\* document write), writes that message's record only: it ends fetched (resp.
\* converted), or failed with the text of the exception; the loop goes on with
\* the rest of the batch, nothing is raised, and every other record, so every
\* sibling still to be handled, is exactly as it was.
Thm_C11 ==
  [][(pc \in {"fetch_messages", "convert_messages"} /\ work.queue # <<>>) =>
       /\ work'.queue = Tail(work.queue)
       /\ work'.ids = work.ids
       /\ pc' \in {pc, "convert"}
       /\ ret' = NoRet
       /\ Len(messages') = Len(messages)
       /\ \A i \in 1..Len(messages) :
            IF messages[i].message_id # InFlight
            THEN messages'[i] = messages[i]
            ELSE \/ /\ messages'[i].status =
                         IF pc = "fetch_messages" THEN "fetched" ELSE "converted"
                    /\ messages'[i].error_message = messages[i].error_message
                 \/ /\ messages'[i].status = "failed"
                    /\ messages'[i].error_message \in
                         {"ParseError", "OSError", "No convertible content"}]_vars

\* in one fetch batch a message failed to parse and its sibling was fetched
Wit_C11 ==
  /\ pc = "fetch_messages"
  /\ work.queue = <<>>
  /\ \E i, j \in 1..Len(messages) :
       /\ {messages[i].message_id, messages[j].message_id} \subseteq work.returned
       /\ messages[i].status = "failed"
       /\ messages[i].error_message = "ParseError"
       /\ messages[i].updated_at < messages[j].updated_at
       /\ messages[j].status = "fetched"

\* the counters of a FetchProgress or of a fetch_runs row
Counters(r) ==
  <<r.ids_discovered, r.messages_fetched, r.messages_converted, r.messages_failed>>

Thm_C13 ==
  [][last_call'.op = "retry_failed" =>
       /\ Len(messages') = Len(messages)
       /\ \A i \in 1..Len(messages) :
            IF messages[i].status = "failed"
            THEN messages'[i] = [messages[i] EXCEPT !.status = "pending",
                                                    !.error_message = "",
                                                    !.updated_at = clock']
            ELSE messages'[i] = messages[i]
       /\ last_call'.ret =
            Cardinality({i \in 1..Len(messages) : messages[i].status = "failed"})]_vars

\* retry_failed reset one failed record and left a fetched one alone
Wit_C13 ==
  /\ last_call.op = "retry_failed"
  /\ last_call.ret = 1
  /\ \E i, j \in 1..Len(messages) :
       /\ messages[i].status = "pending"
       /\ messages[i].updated_at = clock
       /\ messages[i].created_at < clock
       /\ messages[j].status = "fetched"
       /\ messages[j].updated_at < clock

\* C14: a call of retry_failed made directly after another one returns 0 and
\* leaves count_by_status as it was.
Thm_C14 ==
  [][(last_call.op = "retry_failed" /\ last_call'.op = "retry_failed") =>
       /\ last_call'.ret = 0
       /\ count_by_status(messages') = count_by_status(messages)]_vars

\* retry_failed was called twice in a row, the first call having reset a record
Wit_C14 ==
  /\ last_call.op = "retry_failed"
  /\ last_call.before = "retry_failed"
  /\ last_call.ret = 0
  /\ \E i \in 1..Len(messages) :
       /\ messages[i].status = "pending"
       /\ messages[i].updated_at = clock - 1
       /\ messages[i].created_at < clock - 1

\* C15: update_status called with a status that is none of pending, fetched,
\* converted and failed raises the invalid-status error, whether or not the
\* message ID is tracked, and the table is left exactly as it was.
Thm_C15 ==
  [][(/\ last_call'.op = "update_status"
      /\ last_call'.status \notin {"pending", "fetched", "converted", "failed"}) =>
       /\ last_call'.raised = "ValueError"
       /\ messages' = messages]_vars

\* update_status was refused for a tracked message that had been fetched
Wit_C15 ==
  /\ last_call.op = "update_status"
  /\ last_call.raised = "ValueError"
  /\ \E i \in 1..Len(messages) :
       /\ messages[i].message_id = last_call.ids[1]
       /\ messages[i].status = "fetched"

\* the message IDs tracked before the operation in progress began
TrackedBefore ==
  {messages[i].message_id :
     i \in {j \in 1..Len(messages) : messages[j].created_at <= op.started_at}}

\* C16: run_discovery returns the number of records the call created, which is
\* the number of distinct collected message IDs that were not tracked before
\* the call; an ID already tracked, or collected more than once, adds nothing,
\* so a discovery whose collected IDs were all tracked before returns 0.
Thm_C16 ==
  (pc = "done" /\ op.name = "run_discovery" /\ ret.outcome = "returned") =>
    LET collected == {disc.collected[k] : k \in 1..Len(disc.collected)}
        created == {i \in 1..Len(messages) : messages[i].created_at > op.started_at}
    IN /\ ret.value = Cardinality(collected \ TrackedBefore)
       /\ ret.value = Cardinality(created)
       /\ {messages[i].message_id : i \in created} = collected \ TrackedBefore
       /\ collected \subseteq TrackedBefore => ret.value = 0

\* a later discovery that collected one untracked ID twice returned 1
Wit_C16 ==
  /\ pc = "done" /\ op.name = "run_discovery" /\ ret.outcome = "returned"
  /\ ret.value = 1
  /\ TrackedBefore # {}
  /\ Len(disc.collected) = 2
  /\ disc.collected[1] = disc.collected[2]
  /\ disc.collected[1] \notin TrackedBefore

\* the records written since the operation in progress began
WrittenSinceStart ==
  {i \in 1..Len(messages) : messages[i].updated_at > op.started_at}

\* C17: the limit of a stage caps the messages the stage processes: during
\* run_fetch_pending(limit=N) at most N messages leave status pending, and
\* during run_convert_pending(limit=N) at most N leave status fetched, whether
\* each of them succeeds or fails.
Cex_C17 ==
  (op.name \in {"run_fetch_pending", "run_convert_pending"} /\ op.limit # NoLimit) =>
    Cardinality(WrittenSinceStart) <= op.limit

\* a step in which the process dies in a stage
Dies == pc \in {"fetch", "fetch_messages", "convert", "convert_messages"} /\ pc' = "idle"

\* the record of the message the per-message loop is at
InFlightRecord == get_message(messages, InFlight)

\* C18: when the process dies at any point of the fetch or convert stage, every
\* record written before is as it was written, only the message being handled
\* can have files without the matching status update, every record is in one
\* of the four valid statuses under its own message ID, and a stage run again
\* takes exactly messages that are pending (resp. fetched): no message whose
\* update was committed is handled again.
Thm_C18 ==
  /\ [](/\ \A i \in 1..Len(messages) : messages[i].status \in VALID_STATUSES
        /\ \A i, j \in 1..Len(messages) :
             messages[i].message_id = messages[j].message_id => i = j
        /\ (pc = "fetch_messages" /\ work.queue # <<>>) =>
             InFlightRecord # <<>> /\ InFlightRecord.status = "pending"
        /\ (pc = "convert_messages" /\ work.queue # <<>>) =>
             InFlightRecord # <<>> /\ InFlightRecord.status = "fetched")
  /\ [][/\ Dies =>
             /\ Len(messages') = Len(messages)
             /\ \A i \in 1..Len(messages) :
                  \/ messages'[i] = messages[i]
                  \/ /\ messages'[i].updated_at > clock
                     /\ messages'[i].status = "failed"
                     /\ messages[i].status = "pending"
             /\ files \subseteq files'
             /\ files' # files =>
                  /\ work.queue # <<>>
                  /\ files' \ files \subseteq {RawTextPath(InFlight), RawHtmlPath(InFlight),
                                               MarkdownPath(InFlight)}
                  /\ messages' = messages
        /\ (pc = "fetch" /\ pc' = "fetch_messages") =>
             /\ \A k \in 1..Len(work'.ids) :
                  get_message(messages, work'.ids[k]).status = "pending"
             /\ \A k, l \in 1..Len(work'.ids) : work'.ids[k] = work'.ids[l] => k = l
        /\ (pc = "convert" /\ pc' = "convert_messages") =>
             /\ \A k \in 1..Len(work'.ids) :
                  get_message(messages, work'.ids[k]).status = "fetched"
             /\ \A k, l \in 1..Len(work'.ids) : work'.ids[k] = work'.ids[l] => k = l]_vars

\* a process died while it fetched a message whose raw file it had written;
\* the stage run again has that message, still pending, in hand, and the
\* message fetched before is as it was
Wit_C18 ==
  /\ proc.crashed
  /\ op.name = "run_fetch_pending"
  /\ pc = "fetch_messages"
  /\ work.queue # <<>>
  /\ InFlightRecord.status = "pending"
  /\ RawTextPath(InFlight) \in files
  /\ \E i \in 1..Len(messages) :
       messages[i].status = "fetched" /\ messages[i].updated_at <= op.started_at

\* C19: however a CLI command ends - it completes, it fails, or the operator
\* interrupts it at any point - the tracker connection is not open any more
\* when the process has exited, and an interrupted process exits with status
\* 130, a failed one with 1, a completed one with 0.
Thm_C19 ==
  /\ [](proc.phase = "exited" => proc.conn # "open")
  /\ [](proc.phase \in {"exiting", "exited"} =>
          /\ proc.signal = "KeyboardInterrupt" => proc.exit_code = 130
          /\ proc.signal \in {"Exception", "SystemExit"} => proc.exit_code = 1
          /\ proc.signal = "none" => proc.exit_code = 0)
  /\ [][/\ (proc.phase = "running" /\ ret'.outcome = "KeyboardInterrupt") =>
             /\ proc'.phase = "exiting"
             /\ proc'.signal = "KeyboardInterrupt"
             /\ messages' = messages
        /\ proc'.phase = "exited" =>
             /\ proc'.conn \in {"none", "closed"}
             /\ proc.conn = "open" => proc'.conn = "closed"
             /\ proc.phase = "exiting" => proc'.exit_code = proc.exit_code]_vars

\* a fetch-pending process was interrupted between two messages of a batch: it
\* has exited with 130, its connection closed, one message fetched and one
\* still pending
Wit_C19 ==
  /\ proc.phase = "exited"
  /\ proc.command = "fetch-pending"
  /\ proc.signal = "KeyboardInterrupt"
  /\ proc.exit_code = 130
  /\ proc.conn = "closed"
  /\ \E i, j \in 1..Len(messages) :
       messages[i].status = "fetched" /\ messages[j].status = "pending"

\* C20: convert follows the decision table: HTML present and extraction
\* returns non-empty text -> that text; HTML present, extraction raises or
\* returns the empty string or nothing, and plain text present -> the plain
\* text; no HTML and plain text present -> the plain text; every other case
\* -> ConversionError.  So a returned document never has an empty body.
Cex_C20 ==
  last_call.op = "convert" =>
    LET body == last_call.args.body
        extract == last_call.args.extract
        extracted == truthy(body.html) /\ ~extract.raises /\ truthy(extract.result)
        expected == IF extracted THEN extract.result
                    ELSE IF truthy(body.plain_text) THEN body.plain_text
                    ELSE <<>>
    IN /\ IF expected = <<>>
          THEN last_call.raised = "ConversionError"
          ELSE /\ last_call.raised = ""
               /\ last_call.ret.markdown_body = expected[1]
       /\ last_call.raised = "" => last_call.ret.markdown_body # ""

OptionalFields == DOMAIN NoFields

\* C22: update_status writes an optional field (subject, sender, date, raw
\* text path, raw HTML path, markdown path, error message) of the record only
\* when the value passed is not the empty string, and leaves it as recorded
\* otherwise; status and updated_at are written on every call, and no other
\* record changes.
Thm_C22 ==
  [][(last_call'.op = "update_status" /\ last_call'.raised = "") =>
       /\ Len(messages') = Len(messages)
       /\ \A i \in 1..Len(messages) :
            IF messages[i].message_id = last_call'.ids[1]
            THEN /\ messages'[i].status = last_call'.status
                 /\ messages'[i].updated_at = clock'
                 /\ clock' > clock
                 /\ \A k \in OptionalFields :
                      messages'[i][k] = IF last_call'.args[k] # ""
                                        THEN last_call'.args[k]
                                        ELSE messages[i][k]
            ELSE messages'[i] = messages[i]]_vars

\* a record fetched with subject, sender, date and raw text path has been
\* set to converted with only the markdown path passed, and still has them
Wit_C22 ==
  /\ last_call.op = "update_status" /\ last_call.status = "converted"
  /\ last_call.args.subject = "" /\ last_call.args.markdown_path # ""
  /\ \E i \in 1..Len(messages) :
       /\ messages[i].message_id = last_call.ids[1]
       /\ messages[i].status = "converted"
       /\ messages[i].subject = FetchedArgsA.subject
       /\ messages[i].raw_text_path = FetchedArgsA.raw_text_path
       /\ messages[i].markdown_path = last_call.args.markdown_path
       /\ messages[i].updated_at = clock

\* C23: run_discovery requests a page only while the limit is not satisfied:
\* once limit stubs have been collected, the step that collected the last of
\* them inserts the truncated page and ends the stage, and no page is
\* requested after it.
Cex_C23 ==
  [][(pc = "discovery" /\ op.name = "run_discovery") =>
       /\ disc'.requests > disc.requests => ~limit_reached(op.limit, disc.total_collected)
       /\ limit_reached(op.limit, disc'.total_collected) =>
            /\ pc' = "done"
            /\ \A k \in 1..Len(disc'.collected) :
                 is_tracked(messages', disc'.collected[k])]_vars

RECURSIVE Pow2(_)
Pow2(k) == IF k = 0 THEN 1 ELSE 2 * Pow2(k - 1)

\* C24: within one request the sleep before the k-th retry (k = 0, 1, ...)
\* lies in [0, min(initialBackoff * 2^k, maxBackoff)]; this upper bound never
\* decreases from one retry to the next, doubles until it meets maxBackoff
\* and never exceeds maxBackoff, also when initialBackoff > maxBackoff.
Thm_C24 ==
  (last_call.op = "GmailClient" /\ client.op = "list_labels") =>
    LET initialBackoff == last_call.args.initial_backoff
        maxBackoff == last_call.args.max_backoff
        bound(k) == Min(initialBackoff * Pow2(k), maxBackoff)
    IN /\ Len(last_call.ret) = Len(client.sleeps)
       /\ \A k \in 0..(Len(client.sleeps) - 1) :
            /\ client.sleeps[k + 1] = bound(k)
            /\ last_call.ret[k + 1] \in 0..bound(k)
            /\ bound(k) <= maxBackoff
            /\ k > 0 => /\ bound(k) >= bound(k - 1)
                        /\ bound(k) \in {2 * bound(k - 1), maxBackoff}

\* a request has slept twice: under the initial backoff, then under the cap,
\* which is less than twice the initial backoff, and the second sleep took
\* the whole of its bound
Wit_C24 ==
  /\ last_call.op = "GmailClient" /\ Len(client.sleeps) = 2
  /\ client.sleeps[1] = last_call.args.initial_backoff
  /\ client.sleeps[1] < client.sleeps[2]
  /\ client.sleeps[2] = last_call.args.max_backoff
  /\ client.sleeps[2] < 2 * client.sleeps[1]
  /\ last_call.ret[2] = client.sleeps[2]

EventsAt(log, e) == {i \in 1..Len(log) : log[i].e = e}
LastBefore(log, e, i) ==
  LET before == {j \in EventsAt(log, e) : j < i}
  IN IF before = {} THEN 0 ELSE CHOOSE j \in before : \A k \in before : k <= j

IsPage(event) == event.e = "response" /\ event.page # <<>>
IsYield(event) == event.e = "yield"

\* C26: discover_message_ids yields the non-empty pages of the responses, in
\* the order of the responses; it requests a page only after the consumer has
\* asked since the last yield, the first without a token and each later one
\* with the nextPageToken of the response before; it sleeps the inter-page
\* delay right before every request but the first and at no other time; and
\* it requests nothing after a response without messages or without a token.
Thm_C26 ==
  last_call.op = "discover_message_ids" =>
    LET log == last_call.args
        pages == SelectSeq(log, IsPage)
        yields == SelectSeq(log, IsYield)
    IN /\ Len(yields) = Len(pages) /\ Len(last_call.ret) = Len(pages)
       /\ \A k \in 1..Len(pages) :
            yields[k].page = pages[k].page /\ last_call.ret[k] = pages[k].page
       /\ \A i \in EventsAt(log, "yield") :
            log[i].page # <<>> /\ log[i - 1].e = "response" /\ log[i - 1].page = log[i].page
       /\ \A i \in EventsAt(log, "request") :
            LET r == LastBefore(log, "response", i)
            IN /\ LastBefore(log, "next", i) > LastBefore(log, "yield", i)
               /\ LastBefore(log, "next", i) > LastBefore(log, "request", i)
               /\ IF r = 0 THEN log[i].token = ""
                  ELSE /\ log[i].token = log[r].token
                       /\ log[r].token # "" /\ log[r].page # <<>>
                       /\ log[r + 1].e = "yield"
               /\ (disc.delay > 0 /\ r # 0) <=> log[i - 1].e = "sleep"
       /\ \A i \in EventsAt(log, "sleep") : i < Len(log) /\ log[i + 1].e = "request"
       /\ \A i \in 1..Len(log) :
            log[i].e \in {"return", "RateLimitError", "GmailIngestorError"} =>
              i = Len(log) /\ disc.state = "ended"

\* two pages were yielded, the second requested with the token of the first
\* response after a sleep, and the generator returned without another request
\* when the consumer asked for a third, the second response having no token
Wit_C26 ==
  /\ last_call.op = "discover_message_ids" /\ disc.state = "ended" /\ disc.delay > 0
  /\ last_call.ret = <<(<<2, 1>>), (<<1>>)>>
  /\ LET log == last_call.args
     IN /\ Len(log) = 11
        /\ log[3].token = "tB" /\ log[7].e = "request" /\ log[7].token = "tB"
        /\ log[6].e = "sleep" /\ log[8].e = "response" /\ log[8].token = ""
        /\ log[10].e = "next" /\ log[11].e = "return"

\* the rank of row i among the rows of its status: by created_at, rows with
\* the same created_at by their place in the table
RankOf(t, i) ==
  1 + Cardinality({j \in 1..Len(t) :
                     /\ t[j].status = t[i].status
                     /\ \/ t[j].created_at < t[i].created_at
                        \/ t[j].created_at = t[i].created_at /\ j < i})

RECURSIVE Windows(_, _, _, _)
\* the windows offset = from, from + limit, ... of a status, as far as the
\* table has rows, joined
Windows(t, status, limit, from) ==
  IF from >= Len(t) THEN <<>>
  ELSE get_ids(t, status, limit, from) \o Windows(t, status, limit, from + limit)

ShortId(message_id) ==
  [k \in 1..Min(ShortIdLen, Len(message_id)) |-> message_id[k]]

Converting(i) ==
  /\ pc = "convert_messages" /\ work.queue # <<>>
  /\ work'.queue = Tail(work.queue)
  /\ messages[i].message_id = Head(work.queue)

\* the file of a recorded path is there / is gone
Readable(path) == path # "" /\ path \in files
Gone(path) == path # "" /\ path \notin files

ConversionFailed(row) ==
  row.status = "failed" /\ row.error_message = "No convertible content"

Cex_C29 ==
  [][last_call'.op = "insert_pending" =>
       /\ last_call'.ret = TRUE <=> Len(messages') = Len(messages) + 1
       /\ is_tracked(messages, last_call'.ids[1]) => last_call'.ret = FALSE]_vars

\* C30: run_fetch_pending and run_convert_pending terminate for every
\* backlog, offset, limit and batch size, whatever subset of the requested
\* IDs the API returns and whichever per-message operations fail: a stage
\* that has been entered always comes to its end, and when its loop is back
\* at its head no ID of the batch just pulled has the pulled status any more
\* (pending for the fetch stage, fetched for the convert stage).
InStage == pc \in {"fetch", "fetch_messages", "convert", "convert_messages"}

PulledStatus == IF op.name = "run_fetch_pending" THEN "pending" ELSE "fetched"

BackAtHead ==
  /\ pc \in {"fetch_messages", "convert_messages"}
  /\ pc' \in {"fetch", "convert"}

Thm_C30 ==
  /\ InStage ~> (pc = "done")
  /\ [][BackAtHead =>
          \A i \in 1..Len(work.ids) :
            get_message(messages', work.ids[i]).status # PulledStatus]_vars

\* a fetch stage over two pending messages in batches of one has ended: the
\* API left one of them out of its response and the other one was stored
Wit_C30 ==
  /\ pc = "done"
  /\ op.name = "run_fetch_pending"
  /\ op.batch_size = 1
  /\ ret.outcome = "returned"
  /\ \E a, b \in MsgIds :
       /\ a # b
       /\ is_tracked(messages, a)
       /\ is_tracked(messages, b)
       /\ get_message(messages, a).status = "fetched"
       /\ get_message(messages, b).status = "failed"
       /\ get_message(messages, b).error_message = "Not returned in batch response"

\* C31: a stage called with offset k never touches the k records ranked first
\* by created_at among those in the status it pulls (pending for the fetch
\* stage, fetched for the convert stage): every step of the stage leaves them
\* as they are, fields and rank included, and a stage that ends with no limit
\* and no adapter error leaves no other record in that status.
StagePulls ==
  IF pc \in {"fetch", "fetch_messages"} THEN "pending"
  ELSE IF pc \in {"convert", "convert_messages"} THEN "fetched"
  ELSE ""

Skipped(t) == get_ids(t, StagePulls, op.offset, 0)

StageEnds ==
  /\ StagePulls # ""
  /\ pc' \notin {"fetch", "fetch_messages"} \/ StagePulls # "pending"
  /\ pc' \notin {"convert", "convert_messages"} \/ StagePulls # "fetched"

NewRequest == Len(work'.requests) = Len(work.requests) + 1

DisjointRequests(log) ==
  /\ \A i \in 1..Len(log) : \A a, b \in 1..Len(log[i]) : log[i][a] = log[i][b] => a = b
  /\ \A i, j \in 1..Len(log) : i # j => Range(log[i]) \cap Range(log[j]) = {}

Thm_C32 ==
  /\ [](DisjointRequests(work.requests))
  /\ []((pc = "done" /\ op.name = "run_fetch_pending" /\ ret.outcome = "returned"
           /\ op.limit # NoLimit) => ret.value <= op.limit)
  /\ [][NewRequest =>
          LET request == work'.requests[Len(work'.requests)]
          IN /\ Len(request) >= 1
             /\ Len(request) <= effective_batch_size(op.batch_size)
             /\ op.limit # NoLimit => Len(request) <= op.limit - work.total]_vars

\* run_fetch_pending(limit=1) with the default batch size has returned 1 over
\* two pending messages: its one request carried one ID
Wit_C32 ==
  /\ pc = "done"
  /\ op.name = "run_fetch_pending"
  /\ op.limit = 1
  /\ op.batch_size = 0
  /\ ret.value = 1
  /\ Len(work.requests) = 1
  /\ Len(work.requests[1]) = 1
  /\ Len(messages) = 2
  /\ messages[2].status = "pending"

\* C33: the counters run() writes to the audit record equal the status
\* transitions performed during the run.  The counters start at 0; every step
\* of the run adds to messages_fetched the number of records it takes from
\* pending to fetched, to messages_converted the number it takes from fetched
\* to converted and to messages_failed the number it takes into failed; the
\* step that completes the record writes the counters as they then are.
Moved(from, to) ==
  Cardinality({i \in 1..Len(messages) :
                 /\ messages[i].status \in from
                 /\ get_message(messages', messages[i].message_id).status = to})

Thm_C33 ==
  [][/\ (op.name # "run" /\ op'.name = "run") =>
          /\ progress'.messages_fetched = 0
          /\ progress'.messages_converted = 0
          /\ progress'.messages_failed = 0
     /\ (op.name = "run" /\ op'.name = "run") =>
          /\ progress'.messages_fetched - progress.messages_fetched
               = Moved({"pending"}, "fetched")
          /\ progress'.messages_converted - progress.messages_converted
               = Moved({"fetched"}, "converted")
          /\ progress'.messages_failed - progress.messages_failed
               = Moved(VALID_STATUSES \ {"failed"}, "failed")
          /\ Moved(VALID_STATUSES \ {"pending", "fetched"}, "fetched") = 0
          /\ Moved(VALID_STATUSES \ {"fetched", "converted"}, "converted") = 0
     /\ (op.name = "run" /\ pc # "done" /\ pc' = "done") =>
          /\ fetch_runs'[op.run_id].messages_fetched = progress'.messages_fetched
          /\ fetch_runs'[op.run_id].messages_converted = progress'.messages_converted
          /\ fetch_runs'[op.run_id].messages_failed = progress'.messages_failed]_vars

\* a run over two messages has completed its record: both were fetched, one
\* was converted and the conversion of the other failed
Wit_C33 ==
  /\ pc = "done"
  /\ op.name = "run"
  /\ ret.outcome = "returned"
  /\ fetch_runs[op.run_id].messages_fetched = 2
  /\ fetch_runs[op.run_id].messages_converted = 1
  /\ fetch_runs[op.run_id].messages_failed = 1
  /\ \E i, j \in 1..Len(messages) :
       messages[i].status = "converted" /\ messages[j].status = "failed"

\* C34: the update that sets a record to fetched records the paths of raw
\* parts the raw store has already written, and the update that sets a record
\* to converted records the path of a document the writer has already
\* written; in every state a converted record has a non-empty markdown_path
\* and every other record (none of which was ever converted) an empty one.
Becomes(i, status) ==
  /\ i <= Len(messages')
  /\ messages[i].status # status
  /\ messages'[i].status = status

Thm_C34 ==
  /\ [](\A i \in 1..Len(messages) :
          messages[i].status = "converted" <=> messages[i].markdown_path # "")
  /\ [][\A i \in 1..Len(messages) :
          /\ messages[i].status = "converted" => messages'[i].status = "converted"
          /\ Becomes(i, "fetched") =>
               /\ messages'[i].raw_text_path # "" => messages'[i].raw_text_path \in files'
               /\ messages'[i].raw_html_path # "" => messages'[i].raw_html_path \in files'
          /\ Becomes(i, "converted") =>
               /\ messages'[i].markdown_path # ""
               /\ messages'[i].markdown_path \in files']_vars

\* one record is converted, with its raw part and its document on disk, and
\* another one failed in conversion and has no document path
Wit_C34 ==
  \E i, j \in 1..Len(messages) :
    /\ messages[i].status = "converted"
    /\ messages[i].markdown_path \in files
    /\ messages[i].raw_text_path \in files
    /\ messages[j].status = "failed"
    /\ messages[j].raw_html_path \in files
    /\ messages[j].markdown_path = ""

\* C35: the tracked message IDs only grow. Every step keeps each record at
\* its place with its message ID; a step that adds records is a call of
\* insert_pending or bulk_insert_pending and adds only IDs it was handed;
\* update_status on an untracked ID leaves the table as it was; and the sum
\* of count_by_status, which is the number of records, changes in no other
\* call than the two inserts.
RECURSIVE SumCounts(_, _)
SumCounts(counts, statuses) ==
  IF statuses = {} THEN 0
  ELSE LET s == CHOOSE x \in statuses : TRUE
       IN counts[s] + SumCounts(counts, statuses \ {s})

TotalTracked(t) == SumCounts(count_by_status(t), VALID_STATUSES)

Thm_C35 ==
  [][/\ Len(messages') >= Len(messages)
     /\ \A i \in 1..Len(messages) : messages'[i].message_id = messages[i].message_id
     /\ \A i \in (Len(messages) + 1)..Len(messages') :
          /\ last_call'.op \in {"insert_pending", "bulk_insert_pending"}
          /\ \E k \in 1..Len(last_call'.ids) :
               last_call'.ids[k] = messages'[i].message_id
          /\ messages'[i].status = "pending"
     /\ (last_call'.op = "update_status" /\ last_call'.raised = ""
           /\ ~is_tracked(messages, last_call'.ids[1])) => messages' = messages
     /\ TotalTracked(messages') = Len(messages')
     /\ last_call'.op \notin {"insert_pending", "bulk_insert_pending"}
          => TotalTracked(messages') = TotalTracked(messages)]_vars

\* update_status was just called on an untracked ID next to a tracked record
\* that an earlier update had moved on
Wit_C35 ==
  /\ last_call.op = "update_status"
  /\ Len(messages) = 1
  /\ ~is_tracked(messages, last_call.ids[1])
  /\ messages[1].status = "failed"
  /\ clock = 3

\* C36: a discovery that fails on a page leaves the table as the pages
\* before it left it, so every stub collected from them is tracked and
\* pending, and the error comes out of run_discovery; and whenever a
\* discovery without limit and offset has gone over its whole listing, each
\* listed message ID has exactly one record, whatever calls came before it.
DiscoveryFails == pc = "discovery" /\ pc' = "done" /\ ret'.outcome # "returned"

Records(t, message_id) == {i \in 1..Len(t) : t[i].message_id = message_id}

CompleteDiscovery ==
  /\ pc = "done"
  /\ op.name = "run_discovery"
  /\ ret.outcome = "returned"
  /\ op.limit = NoLimit
  /\ op.offset = 0

StageOrder == <<"discovery", "fetch", "convert", "complete">>

StageIndex(marker) == CHOOSE k \in 1..Len(StageOrder) : StageOrder[k] = marker

StageOf(position) ==
  IF position = "discovery" THEN "discovery"
  ELSE IF position \in {"fetch", "fetch_messages"} THEN "fetch"
  ELSE IF position \in {"convert", "convert_messages"} THEN "convert"
  ELSE ""

Thm_C37 ==
  /\ [][/\ (op.name # "run" /\ op'.name = "run") =>
             progress'.current_stage = "discovery" /\ progress'.pushed
        /\ (op.name = "run" /\ op'.name = "run"
              /\ progress'.current_stage # progress.current_stage) =>
             /\ progress.current_stage \in {"discovery", "fetch", "convert"}
             /\ progress.current_stage = StageOf(pc)
             /\ progress'.pushed
             /\ \/ /\ progress'.current_stage = "error"
                   /\ pc' = "done"
                   /\ ret'.outcome # "returned"
                \/ /\ progress'.current_stage \in {"fetch", "convert", "complete"}
                   /\ StageIndex(progress'.current_stage)
                        = StageIndex(progress.current_stage) + 1
                   /\ progress'.current_stage = "complete" =>
                        pc' = "done" /\ ret'.outcome = "returned"]_vars
  /\ []((op.name = "run" /\ pc = "done") =>
          progress.current_stage
            = IF ret.outcome = "returned" THEN "complete" ELSE "error")
  /\ []((op.name = "run" /\ pc # "done") => progress.current_stage = StageOf(pc))

\* a run() has returned with the marker complete after it converted a message
Wit_C37 ==
  /\ op.name = "run"
  /\ pc = "done"
  /\ ret.outcome = "returned"
  /\ progress.current_stage = "complete"
  /\ progress.messages_converted = 1
  /\ \E i \in 1..Len(messages) : messages[i].status = "converted"

\* C38: in every state the orchestrator reaches, a record that is pending,
\* fetched or converted has an empty error_message.  A step changes the
\* error_message of a record only when it moves the record to failed, or
\* when retry_failed moves it from failed to pending and empties it, which
\* retry_failed does to every failed record.
Unfailed == {"pending", "fetched", "converted"}

Thm_C38 ==
  /\ [](\A i \in 1..Len(messages) :
          messages[i].status \in Unfailed => messages[i].error_message = "")
  /\ [][/\ \A i \in 1..Len(messages) :
             messages'[i].error_message # messages[i].error_message =>
               \/ messages[i].status # "failed" /\ messages'[i].status = "failed"
               \/ /\ op'.name = "retry_failed"
                  /\ messages[i].status = "failed"
                  /\ messages'[i].status = "pending"
                  /\ messages'[i].error_message = ""
        /\ (pc = "idle" /\ op'.name = "retry_failed") =>
             \A i \in 1..Len(messages) :
               messages[i].status = "failed" =>
                 messages'[i].status = "pending" /\ messages'[i].error_message = ""]_vars

\* retry_failed has just returned a record to pending that had failed with a
\* reason, next to none it left alone
Wit_C38 ==
  /\ pc = "done"
  /\ op.name = "retry_failed"
  /\ ret.value = 1
  /\ Len(messages) = 1
  /\ messages[1].status = "pending"
  /\ messages[1].error_message = ""
  /\ messages[1].updated_at > messages[1].created_at + 1

====
